---- MODULE Spec2Model ----
(***************************************************************************)
(* drf-jsonapi: compound-document assembly (drf_jsonapi/serializers) and   *)
(* the top-level document serializer, modelled over the trunk / branch /   *)
(* leaf resource types of tests/nested_includes.                           *)
(*                                                                         *)
(* Encoding of Python values:                                              *)
(*   - an include entry is the sequence of its "."-separated segments:     *)
(*     "a.b" is <<"a","b">>, "" is <<"">>, "a." is <<"a","">>; None is     *)
(*     <<>> (str.split never returns an empty list);                       *)
(*   - only_fields is a function type -> set of field names; None and {}   *)
(*     are both the empty function (the code treats them alike: lines 90   *)
(*     and 120 of resources.py);                                           *)
(*   - "one object, a list of objects or null" is a record                 *)
(*     [many, items]: null is [many |-> FALSE, items |-> <<>>];            *)
(*   - a dict with optional keys is a function whose DOMAIN is the keys    *)
(*     present;                                                            *)
(*   - an exception is a record [kind, raised_by, names, parameter]: the   *)
(*     names its message lists and its source parameter; kind "none"       *)
(*     means no exception was raised.                                      *)
(* The context a builder is constructed with is an input of retrieve and   *)
(* list: no request, a request whose path resolves or not, and page        *)
(* parameters; every handler defines show_data, the attribute read at      *)
(* resources.py:247.  RelationshipHandler (HandlerSpec) and                *)
(* JsonApiValidator (ValidatorSpec) are also called directly.              *)
(***************************************************************************)
EXTENDS Integers, Sequences, FiniteSets, TLC

VARIABLES branch_trunk, leaf_branch, writes, pc, request, outcome, document, rendered,
          handler_self, handler_resource, handler_call, validator_call, create_call

\* a RelationshipHandler called directly: the handler's attributes, the
\* value of the related field of the resource it is given, the last call
\* with its arguments and what it returned or raised
handler_vars == <<handler_self, handler_resource, handler_call>>

vars == <<branch_trunk, leaf_branch, writes, pc, request, outcome, document, rendered,
          handler_self, handler_resource, handler_call, validator_call, create_call>>

---------------------------------------------------------------------------
(* Bounds *)

\* number of set_related calls made on the store
MaxWrites == 1

\* the largest page[relation][size] and page[relation][number] of a request
MaxPageSize == 2
MaxPageNumber == 2

\* apply_pagination called directly: the largest number of related
\* entities, page size and page number
MaxCount == 9
MaxPerPage == 10
MaxNumber == 3

---------------------------------------------------------------------------
(* Resource types: tests/nested_includes/serializers.py *)

Types == {"trunk", "branch", "leaf"}

\* primary keys of the entities of each type
Ids == {1, 2}

\* a to-one relation with no related entity (None)
NoId == 0

\* Meta.fields
Meta_fields(type) == {"name"}

\* Meta.basename
Meta_basename(type) ==
    CASE type = "trunk" -> "trunks"
      [] type = "branch" -> "branches"
      [] type = "leaf" -> "leaves"

\* define_relationships(): relation names in dict order
define_relationships(type) ==
    CASE type = "trunk" -> <<"branches">>
      [] type = "branch" -> <<"leaves", "trunk">>
      [] type = "leaf" -> <<"branch">>

\* the handler of a relation: serializer_class, many, show_data
RelationshipHandler(type, relation) ==
    CASE type = "trunk" /\ relation = "branches" ->
             [serializer_class |-> "branch", many |-> TRUE, show_data |-> FALSE]
      [] type = "branch" /\ relation = "leaves" ->
             [serializer_class |-> "leaf", many |-> TRUE, show_data |-> FALSE]
      [] type = "branch" /\ relation = "trunk" ->
             [serializer_class |-> "trunk", many |-> FALSE, show_data |-> TRUE]
      [] type = "leaf" /\ relation = "branch" ->
             [serializer_class |-> "branch", many |-> FALSE, show_data |-> FALSE]

\* viewsets registered with the router: their detail and relationship
\* routes can be reversed
RegisteredBasenames == {"trunks", "leaves"}

---------------------------------------------------------------------------
(* Helpers on sequences *)

Range(s) == {s[i] : i \in DOMAIN s}

RECURSIVE SeqOfSet(_)
\* the elements of a set of integers as a sequence in ascending order
\* (order_by('id'))
SeqOfSet(S) ==
    IF S = {} THEN <<>>
    ELSE LET m == CHOOSE x \in S : \A y \in S : x <= y
         IN <<m>> \o SeqOfSet(S \ {m})

\* utils.listify of a serializer's data
listify(data) == data.items

NoExc == [kind |-> "none", raised_by |-> "", names |-> {}, parameter |-> ""]

Instance(type, id) == [type |-> type, id |-> id]

---------------------------------------------------------------------------
(* The store: Django foreign keys Branch.trunk and Leaf.branch *)

\* RelationshipHandler.get_related through the handlers of
\* tests/nested_includes/relationships.py, as [many, items]
get_related(db, type, relation, inst) ==
    LET bt == db.branch_trunk
        lb == db.leaf_branch
    IN
    CASE type = "trunk" /\ relation = "branches" ->
             [many |-> TRUE,
              items |-> [i \in DOMAIN SeqOfSet({b \in Ids : bt[b] = inst.id}) |->
                            Instance("branch", SeqOfSet({b \in Ids : bt[b] = inst.id})[i])]]
      [] type = "branch" /\ relation = "leaves" ->
             [many |-> TRUE,
              items |-> [i \in DOMAIN SeqOfSet({l \in Ids : lb[l] = inst.id}) |->
                            Instance("leaf", SeqOfSet({l \in Ids : lb[l] = inst.id})[i])]]
      [] type = "branch" /\ relation = "trunk" ->
             [many |-> FALSE,
              items |-> IF bt[inst.id] = NoId THEN <<>>
                        ELSE <<Instance("trunk", bt[inst.id])>>]
      [] type = "leaf" /\ relation = "branch" ->
             [many |-> FALSE,
              items |-> IF lb[inst.id] = NoId THEN <<>>
                        ELSE <<Instance("branch", lb[inst.id])>>]

---------------------------------------------------------------------------
(* ResourceSerializer: construction and validation *)

\* filter(None, includes): drops None and ""
filter_None(includes) == SelectSeq(includes, LAMBDA e : e # <<>> /\ e # <<"">>)

RECURSIVE build_include_tree_loop(_, _)
\* the for loop of _build_include_tree; the dict is [keys, branches] with
\* keys in insertion order
build_include_tree_loop(includes, include_tree) ==
    IF includes = <<>> THEN include_tree
    ELSE LET parts == Head(includes)
             root == parts[1]
             t1 == IF root \in DOMAIN include_tree.branches THEN include_tree
                   ELSE [keys |-> Append(include_tree.keys, root),
                         branches |-> include_tree.branches @@ (root :> <<>>)]
             \* ".".join(parts[1:]) is falsy when it is the empty string
             branches == Tail(parts)
             t2 == IF branches # <<>> /\ branches # <<"">>
                   THEN [t1 EXCEPT !.branches[root] = Append(@, branches)]
                   ELSE t1
         IN build_include_tree_loop(Tail(includes), t2)

\* _build_include_tree keeping only the first segment of every entry
build_include_tree_roots_only(includes) ==
    build_include_tree_loop(
        [i \in DOMAIN filter_None(includes) |-> <<filter_None(includes)[i][1]>>],
        [keys |-> <<>>, branches |-> <<>>])

\* _build_include_tree: the entries split on ".", None and "" dropped
build_include_tree(includes) ==
    build_include_tree_loop(filter_None(includes), [keys |-> <<>>, branches |-> <<>>])

\* validate_includes reporting only one of the invalid names (first-fail)
validate_includes_first_fail(type, includes) ==
    LET tree == build_include_tree(includes)
        invalid_includes == Range(tree.keys) \ Range(define_relationships(type))
    IN [include_tree |-> tree.branches,
        include |-> tree.keys,
        exc |-> IF invalid_includes # {}
                THEN [kind |-> "Error", raised_by |-> "validate_includes",
                      names |-> {CHOOSE n \in invalid_includes : TRUE},
                      parameter |-> "include"]
                ELSE NoExc]

\* validate_includes: the include tree, its keys and the Error raised for
\* keys that are not declared relationships
validate_includes(type, includes) ==
    LET tree == build_include_tree(includes)
        invalid_includes == Range(tree.keys) \ Range(define_relationships(type))
    IN [include_tree |-> tree.branches,
        include |-> tree.keys,
        exc |-> IF invalid_includes # {}
                THEN [kind |-> "Error", raised_by |-> "validate_includes",
                      names |-> invalid_includes, parameter |-> "include"]
                ELSE NoExc]

\* apply_sparse_fieldset that validates the names but drops no field
apply_sparse_fieldset_keeps_fields(ser, fields) ==
    LET invalid_fields == fields \ ser.fields
    IN IF invalid_fields # {}
       THEN [ser EXCEPT !.exc = [kind |-> "ParseError",
                                 raised_by |-> "apply_sparse_fieldset",
                                 names |-> invalid_fields, parameter |-> ""]]
       ELSE ser

\* apply_sparse_fieldset on a builder
apply_sparse_fieldset(ser, fields) ==
    LET invalid_fields == fields \ ser.fields
    IN IF invalid_fields # {}
       THEN [ser EXCEPT !.exc = [kind |-> "ParseError",
                                 raised_by |-> "apply_sparse_fieldset",
                                 names |-> invalid_fields, parameter |-> ""]]
       ELSE [ser EXCEPT !.fields = @ \ (ser.fields \ fields)]

\* ResourceSerializer.__init__ with an included list that is not new: it
\* holds an entry of an earlier builder
ResourceSerializer_init_shared_included(type, include, only_fields, is_root, context) ==
    LET v == validate_includes(type, include)
        ser == [type |-> type,
                context |-> context,
                include_tree |-> v.include_tree,
                include |-> v.include,
                only_fields |-> only_fields,
                is_root |-> is_root,
                fields |-> Meta_fields(type),
                included |-> <<[type |-> "earlier", id |-> NoId]>>,
                included_types |-> {type},
                exc |-> v.exc]
    IN IF v.exc.kind # "none" THEN ser
       ELSE IF type \in DOMAIN only_fields
            THEN apply_sparse_fieldset(ser, only_fields[type])
            ELSE ser

\* ResourceSerializer.__init__; exc is the exception the constructor raised,
\* context the context keyword argument (self._context)
ResourceSerializer_init(type, include, only_fields, is_root, context) ==
    LET v == validate_includes(type, include)
        ser == [type |-> type,
                context |-> context,
                include_tree |-> v.include_tree,
                include |-> v.include,
                only_fields |-> only_fields,
                is_root |-> is_root,
                fields |-> Meta_fields(type),
                included |-> <<>>,
                included_types |-> {type},
                exc |-> v.exc]
    IN IF v.exc.kind # "none" THEN ser
       ELSE IF type \in DOMAIN only_fields
            THEN apply_sparse_fieldset(ser, only_fields[type])
            ELSE ser

\* validate_sparse_fieldsets that accepts every requested type
validate_sparse_fieldsets_accepts_all(ser) == NoExc

\* validate_sparse_fieldsets: the exception it raises, if any
validate_sparse_fieldsets(ser) ==
    LET invalid_types == (DOMAIN ser.only_fields) \ ser.included_types
    IN IF DOMAIN ser.only_fields = {} THEN NoExc
       ELSE IF invalid_types # {}
            THEN [kind |-> "ParseError", raised_by |-> "validate_sparse_fieldsets",
                  names |-> invalid_types, parameter |-> ""]
            ELSE NoExc

\* ResourceListSerializer.included without de-duplication
ResourceListSerializer_included_raw(child_included) == child_included

\* ResourceListSerializer.included: the dict comprehension keeps, for each
\* (type, id), the position of its first entry and the value of its last
ResourceListSerializer_included(child_included) ==
    LET key(x) == <<x.type, x.id>>
        first == SelectSeq([i \in DOMAIN child_included |-> i],
                           LAMBDA i : \A j \in 1..(i - 1) :
                                          key(child_included[j]) # key(child_included[i]))
        last(i) == CHOOSE j \in DOMAIN child_included :
                       /\ key(child_included[j]) = key(child_included[i])
                       /\ \A k \in DOMAIN child_included :
                              key(child_included[k]) = key(child_included[i]) => k <= j
    IN [n \in DOMAIN first |-> child_included[last(first[n])]]

---------------------------------------------------------------------------
(* ResourceSerializer: building resource objects *)

\* handler.build_relationship_links, as [links, exc]: resolve(request.path)
\* is evaluated first, on a request that may be None or whose path may
\* match no route; then the self link when the relationship route of the
\* builder's basename can be reversed, else no link
build_relationship_links(context, type, relation, inst) ==
    IF ~context.request
    THEN [links |-> <<>>,
          exc |-> [kind |-> "AttributeError", raised_by |-> "build_relationship_links",
                   names |-> {relation}, parameter |-> ""]]
    ELSE IF ~context.resolves
    THEN [links |-> <<>>,
          exc |-> [kind |-> "Resolver404", raised_by |-> "build_relationship_links",
                   names |-> {relation}, parameter |-> ""]]
    ELSE [links |-> IF Meta_basename(type) \in RegisteredBasenames
                    THEN [self |-> <<Meta_basename(type), inst.id,
                                     "relationships", relation>>]
                    ELSE <<>>,
          exc |-> NoExc]

\* ResourceSerializer.get_links: nothing without a request, else the self
\* link when the detail route of the builder's basename can be reversed
get_links(context, type, inst) ==
    IF ~context.request THEN <<>>
    ELSE IF Meta_basename(type) \in RegisteredBasenames
    THEN [self |-> <<Meta_basename(type), inst.id>>]
    ELSE <<>>

---------------------------------------------------------------------------
(* RelationshipHandler.apply_pagination over django.core.paginator *)

\* NoPageSize is page_size None, also the default_page_size of a handler
\* class that sets none
NoPageSize == 0

\* Paginator.num_pages by floor division plus one
Paginator_num_pages_floor(count, per_page) == count \div per_page + 1

\* Paginator.num_pages with allow_empty_first_page and no orphans
Paginator_num_pages(count, per_page) ==
    IF count = 0 THEN 1 ELSE (count + per_page - 1) \div per_page

\* Paginator.page(number).object_list: bottom = (number - 1) * per_page,
\* top = bottom + per_page, cut at count
Page_object_list(related, per_page, number) ==
    LET bottom == (number - 1) * per_page
        top == IF bottom + per_page >= Len(related) THEN Len(related)
               ELSE bottom + per_page
    IN SubSeq(related, bottom + 1, top)

\* apply_pagination reporting has_previous for every page beyond the last
apply_pagination_beyond(default_page_size, related, page_size, page_number) ==
    LET per_page == IF page_size # NoPageSize THEN page_size ELSE default_page_size
        count == Len(related)
        num_pages == Paginator_num_pages(count, per_page)
    IN IF per_page = NoPageSize
       THEN [object_list |-> <<>>, meta |-> <<>>,
             exc |-> [kind |-> "TypeError", raised_by |-> "apply_pagination",
                      names |-> {}, parameter |-> ""]]
       ELSE IF page_number >= 1 /\ page_number <= num_pages
       THEN [object_list |-> Page_object_list(related, per_page, page_number),
             meta |-> [count |-> count,
                       has_next |-> page_number < num_pages,
                       has_previous |-> page_number > 1,
                       page_size |-> per_page,
                       page |-> page_number,
                       num_pages |-> num_pages],
             exc |-> NoExc]
       ELSE [object_list |-> <<>>,
             meta |-> [count |-> count,
                       has_next |-> FALSE,
                       has_previous |-> page_number > num_pages,
                       page_size |-> per_page,
                       page |-> page_number,
                       num_pages |-> num_pages],
             exc |-> NoExc]

\* handler.apply_pagination(related, page_size, page_number) of a handler
\* with the given default_page_size, as [object_list, meta, exc]: the page
\* and its meta, the empty list and the EmptyPage meta, or the TypeError of
\* Paginator(related, None)
apply_pagination(default_page_size, related, page_size, page_number) ==
    LET per_page == IF page_size # NoPageSize THEN page_size ELSE default_page_size
        count == Len(related)
        num_pages == Paginator_num_pages(count, per_page)
    IN IF per_page = NoPageSize
       THEN [object_list |-> <<>>, meta |-> <<>>,
             exc |-> [kind |-> "TypeError", raised_by |-> "apply_pagination",
                      names |-> {}, parameter |-> ""]]
       ELSE IF page_number >= 1 /\ page_number <= num_pages
       THEN [object_list |-> Page_object_list(related, per_page, page_number),
             meta |-> [count |-> count,
                       has_next |-> page_number < num_pages,
                       has_previous |-> page_number > 1,
                       page_size |-> per_page,
                       page |-> page_number,
                       num_pages |-> num_pages],
             exc |-> NoExc]
       ELSE [object_list |-> <<>>,
             meta |-> [count |-> count,
                       has_next |-> FALSE,
                       has_previous |-> page_number = num_pages + 1,
                       page_size |-> per_page,
                       page |-> page_number,
                       num_pages |-> num_pages],
             exc |-> NoExc]

---------------------------------------------------------------------------
(* ResourceSerializer: the walk *)

\* resource_identifier(serializer_class)(related, many=...).data
resource_identifier(serializer_class, related) ==
    [many |-> related.many,
     items |-> [i \in DOMAIN related.items |->
                   [type |-> serializer_class, id |-> related.items[i].id]]]

\* the value of a declared attribute of an entity
get_attribute(inst, field) == <<inst.type, inst.id, field>>

\* the result of a call that raised before returning a resource object
NoResource == [type |-> "", id |-> NoId]

\* max(a, b)
Max(a, b) == IF a >= b THEN a ELSE b

RECURSIVE to_representation(_, _, _)
RECURSIVE populate_relationships(_, _, _, _, _)
RECURSIVE get_relationship_data(_, _, _, _, _)
RECURSIVE ListSerializer_to_representation(_, _, _)
RECURSIVE serialize(_, _, _, _, _, _, _)

\* the .data, .included and .included_types of a builder after its walk r
serialize_result(type, target, r) ==
    [data |-> [many |-> target.many, items |-> r.resources],
     included |-> IF target.many
                  THEN ResourceListSerializer_included(r.ser.included)
                  ELSE r.ser.included,
     accumulator |-> r.ser.included,
     included_types |-> r.ser.included_types,
     exc |-> r.exc, fetches |-> r.fetches, built |-> r.built, depth |-> r.depth]

\* serializer_class(target, many=..., only_fields=..., include=...,
\* is_root=..., context=...) followed by .data, .included and .included_types:
\* many_init and ResourceListSerializer when many, the builder itself if not.
\* accumulator is the builder's self.included; fetches counts the
\* get_related calls made and built the resource objects returned, up to
\* the exception when one is raised.
serialize(db, type, target, include, only_fields, is_root, context) ==
    LET child == ResourceSerializer_init(type, include, only_fields, is_root, context)
    IN IF child.exc.kind # "none"
       THEN [data |-> [many |-> target.many, items |-> <<>>],
             included |-> <<>>, accumulator |-> <<>>, included_types |-> {type},
             exc |-> child.exc, fetches |-> 0, built |-> 0, depth |-> 0]
       ELSE serialize_result(type, target,
                ListSerializer_to_representation(db, child, target.items))

\* the list of the first item's resource object r and the rest's
ListSerializer_append(r, rest) ==
    [ser |-> rest.ser,
     resources |-> <<r.resource>> \o rest.resources,
     exc |-> rest.exc,
     fetches |-> r.fetches + rest.fetches,
     built |-> r.built + rest.built,
     depth |-> Max(r.depth, rest.depth)]

\* the list comprehension after its first item gave r: an exception ends it
ListSerializer_rest(db, items, r) ==
    IF r.exc.kind # "none"
    THEN [ser |-> r.ser, resources |-> <<>>, exc |-> r.exc,
          fetches |-> r.fetches, built |-> r.built, depth |-> r.depth]
    ELSE ListSerializer_append(
             r, ListSerializer_to_representation(db, r.ser, Tail(items)))

\* [self.child.to_representation(item) for item in data]; a builder that is
\* not a list builder is given its one instance
ListSerializer_to_representation(db, ser, items) ==
    IF items = <<>>
    THEN [ser |-> ser, resources |-> <<>>, exc |-> NoExc, fetches |-> 0, built |-> 0, depth |-> 0]
    ELSE ListSerializer_rest(db, items, to_representation(db, ser, Head(items)))

\* to_representation after populate_relationships gave pr: attributes,
\* relationships, links, then the late validation of the root builder
to_representation_resource(ser, instance, pr) ==
    LET data == [f \in ser.fields |-> get_attribute(instance, f)]
        links == get_links(ser.context, ser.type, instance)
        resource ==
            [type |-> ser.type, id |-> instance.id, attributes |-> data]
            @@ (IF DOMAIN pr.relationships # {}
                THEN [relationships |-> pr.relationships] ELSE <<>>)
            @@ (IF DOMAIN links # {} THEN [links |-> links] ELSE <<>>)
        late == IF ser.is_root THEN validate_sparse_fieldsets(pr.ser) ELSE NoExc
    IN IF pr.exc.kind # "none"
       THEN [ser |-> pr.ser, resource |-> NoResource, exc |-> pr.exc,
             fetches |-> pr.fetches, built |-> pr.built, depth |-> pr.depth]
       ELSE IF late.kind # "none"
            THEN [ser |-> pr.ser, resource |-> NoResource, exc |-> late,
                  fetches |-> pr.fetches, built |-> pr.built, depth |-> pr.depth]
            ELSE [ser |-> pr.ser, resource |-> resource, exc |-> NoExc,
                  fetches |-> pr.fetches, built |-> pr.built + 1, depth |-> pr.depth]

\* ResourceSerializer.to_representation
to_representation(db, ser, instance) ==
    to_representation_resource(
        ser, instance,
        populate_relationships(db, ser, instance,
                               define_relationships(ser.type), <<>>))

\* the handler of a relation as populate_relationships hands it on: for a
\* builder that is not the root, show_data is set to False
populate_relationships_handler(ser, relation) ==
    IF ~ser.is_root
    THEN [RelationshipHandler(ser.type, relation) EXCEPT !.show_data = FALSE]
    ELSE RelationshipHandler(ser.type, relation)

\* the counts of a relation's data d added to those of the later relations
populate_relationships_sum(d, rest) ==
    [rest EXCEPT !.fetches = @ + d.fetches, !.built = @ + d.built,
          !.depth = Max(@, d.depth)]

\* the loop of populate_relationships after the first relation gave d
populate_relationships_rest(db, instance, relations, relationships, d) ==
    IF d.exc.kind # "none"
    THEN [ser |-> d.ser, relationships |-> relationships, exc |-> d.exc,
          fetches |-> d.fetches, built |-> d.built, depth |-> d.depth]
    ELSE populate_relationships_sum(
             d, populate_relationships(
                    db, d.ser, instance, Tail(relations),
                    IF DOMAIN d.data # {}
                    THEN relationships @@ (Head(relations) :> d.data)
                    ELSE relationships))

\* populate_relationships: the loop over self.relationships.items(), from
\* the relations still to visit and the dict built so far
populate_relationships(db, ser, instance, relations, relationships) ==
    IF relations = <<>>
    THEN [ser |-> ser, relationships |-> relationships, exc |-> NoExc,
          fetches |-> 0, built |-> 0, depth |-> 0]
    ELSE populate_relationships_rest(
             db, instance, relations, relationships,
             get_relationship_data(
                 db, ser, Head(relations),
                 populate_relationships_handler(ser, Head(relations)), instance))

\* get_relationship_data for an included relation with related entities,
\* after the nested builder related_serializer was constructed and read
get_relationship_data_included(ser, data, related_serializer) ==
    IF related_serializer.exc.kind # "none"
    THEN [ser |-> ser, data |-> data, exc |-> related_serializer.exc,
          fetches |-> 1 + related_serializer.fetches,
          built |-> related_serializer.built,
          depth |-> 1 + related_serializer.depth]
    ELSE [ser |-> [ser EXCEPT
                      !.included = @ \o listify(related_serializer.data)
                                     \o related_serializer.included,
                      !.included_types = @ \cup related_serializer.included_types],
          data |-> data, exc |-> NoExc,
          fetches |-> 1 + related_serializer.fetches,
          built |-> related_serializer.built,
          depth |-> 1 + related_serializer.depth]

\* the page[relation][size] and page[relation][number] of request.GET of a
\* to-many relation, NoPageSize when the builder has no request or the
\* request no such size; the number defaults to 1
request_GET_page(context, relation) ==
    IF context.request /\ relation \in DOMAIN context.GET
    THEN context.GET[relation]
    ELSE [size |-> NoPageSize, number |-> 1]

\* get_relationship_data from the linkage on: related is what is left of
\* the related entities after pagination, data the entry so far
get_relationship_data_linkage(db, ser, relation, handler, related, data) ==
    LET serializer_class == handler.serializer_class
        data1 == [data |-> resource_identifier(serializer_class, related)] @@ data
    IN IF relation \notin Range(ser.include)
       THEN [ser |-> ser, data |-> data1, exc |-> NoExc, fetches |-> 1, built |-> 0, depth |-> 0]
       ELSE get_relationship_data_included(
                ser, data1,
                serialize(db, serializer_class, related,
                          IF relation \in DOMAIN ser.include_tree
                          THEN ser.include_tree[relation] ELSE <<>>,
                          ser.only_fields, FALSE, ser.context))

\* get_relationship_data giving [] for a to-one relation without related
\* entity and null for a to-many one
get_relationship_data_related_swapped(db, ser, relation, handler, instance, data0) ==
    LET related == get_related(db, ser.type, relation, instance)
        page == request_GET_page(ser.context, relation)
        paged == apply_pagination(NoPageSize, related.items, page.size, page.number)
    IN IF ~handler.show_data /\ relation \notin Range(ser.include)
       THEN [ser |-> ser, data |-> data0, exc |-> NoExc, fetches |-> 0, built |-> 0, depth |-> 0]
       ELSE IF related.items = <<>>
       THEN [ser |-> ser,
             data |-> [data |-> [many |-> ~handler.many, items |-> <<>>]] @@ data0,
             exc |-> NoExc, fetches |-> 1, built |-> 0, depth |-> 0]
       ELSE get_relationship_data_linkage(
                db, ser, relation, handler,
                IF handler.many /\ page.size # NoPageSize
                THEN [many |-> TRUE, items |-> paged.object_list] ELSE related,
                IF handler.many /\ page.size # NoPageSize
                THEN [meta |-> paged.meta] @@ data0 ELSE data0)

\* get_relationship_data that never bails before the fetch
get_relationship_data_related_no_bail(db, ser, relation, handler, instance, data0) ==
    LET related == get_related(db, ser.type, relation, instance)
        page == request_GET_page(ser.context, relation)
        paged == apply_pagination(NoPageSize, related.items, page.size, page.number)
    IN IF related.items = <<>>
       THEN [ser |-> ser,
             data |-> [data |-> [many |-> handler.many, items |-> <<>>]] @@ data0,
             exc |-> NoExc, fetches |-> 1, built |-> 0, depth |-> 0]
       ELSE get_relationship_data_linkage(
                db, ser, relation, handler,
                IF handler.many /\ page.size # NoPageSize
                THEN [many |-> TRUE, items |-> paged.object_list] ELSE related,
                IF handler.many /\ page.size # NoPageSize
                THEN [meta |-> paged.meta] @@ data0 ELSE data0)

\* get_relationship_data after the links: bail, fetch, handle no relation,
\* paginate a to-many relation whose page size the request gives
get_relationship_data_related(db, ser, relation, handler, instance, data0) ==
    LET related == get_related(db, ser.type, relation, instance)
        page == request_GET_page(ser.context, relation)
        paged == apply_pagination(NoPageSize, related.items, page.size, page.number)
    IN IF ~handler.show_data /\ relation \notin Range(ser.include)
       THEN [ser |-> ser, data |-> data0, exc |-> NoExc, fetches |-> 0, built |-> 0, depth |-> 0]
       ELSE IF related.items = <<>>
       THEN [ser |-> ser,
             data |-> [data |-> [many |-> handler.many, items |-> <<>>]] @@ data0,
             exc |-> NoExc, fetches |-> 1, built |-> 0, depth |-> 0]
       ELSE get_relationship_data_linkage(
                db, ser, relation, handler,
                IF handler.many /\ page.size # NoPageSize
                THEN [many |-> TRUE, items |-> paged.object_list] ELSE related,
                IF handler.many /\ page.size # NoPageSize
                THEN [meta |-> paged.meta] @@ data0 ELSE data0)

\* get_relationship_data
get_relationship_data(db, ser, relation, handler, instance) ==
    LET l == build_relationship_links(ser.context, ser.type, relation, instance)
    IN IF l.exc.kind # "none"
       THEN [ser |-> ser, data |-> <<>>, exc |-> l.exc, fetches |-> 0, built |-> 0, depth |-> 0]
       ELSE get_relationship_data_related(
                db, ser, relation, handler, instance,
                IF DOMAIN l.links # {} THEN [links |-> l.links] ELSE <<>>)

---------------------------------------------------------------------------
(* Document and DocumentSerializer *)

\* Document(): the defaults of Document.__init__
Document ==
    [data |-> <<>>, errors |-> <<>>, meta |-> <<>>, jsonapi |-> <<>>,
     links |-> <<>>, included |-> <<>>]

\* DocumentSerializer.to_representation without the del of the data key
DocumentSerializer_to_representation_keeps_data(instance) ==
    LET data0 == [data |-> instance.data]
        data1 == IF instance.errors # <<>>
                 THEN data0 @@ [errors |-> instance.errors]
                 ELSE data0
        data2 == IF DOMAIN instance.jsonapi # {}
                 THEN data1 @@ [jsonapi |-> instance.jsonapi] ELSE data1
        data3 == IF DOMAIN instance.links # {}
                 THEN data2 @@ [links |-> instance.links] ELSE data2
        data4 == IF instance.included # <<>>
                 THEN data3 @@ [included |-> instance.included] ELSE data3
    IN IF DOMAIN instance.meta # {}
       THEN data4 @@ [meta |-> instance.meta] ELSE data4

\* DocumentSerializer.to_representation: the keys of the rendered document
\* with their values
DocumentSerializer_to_representation(instance) ==
    LET data0 == [data |-> instance.data]
        data1 == IF instance.errors # <<>>
                 THEN [errors |-> instance.errors]
                 ELSE data0
        data2 == IF DOMAIN instance.jsonapi # {}
                 THEN data1 @@ [jsonapi |-> instance.jsonapi] ELSE data1
        data3 == IF DOMAIN instance.links # {}
                 THEN data2 @@ [links |-> instance.links] ELSE data2
        data4 == IF instance.included # <<>>
                 THEN data3 @@ [included |-> instance.included] ELSE data3
    IN IF DOMAIN instance.meta # {}
       THEN data4 @@ [meta |-> instance.meta] ELSE data4

\* ErrorSerializer data of a raised exception, as the exception handler
\* places it in Document.errors
ErrorSerializer_to_representation(exc) ==
    [status |-> "400", detail |-> <<exc.kind, exc.raised_by, exc.names>>]
    @@ (IF exc.kind = "Error" /\ exc.parameter # ""
        THEN [source |-> [parameter |-> exc.parameter]] ELSE <<>>)

---------------------------------------------------------------------------
(* Requests *)

\* the serializer_class of a declared relation of a type
RelatedType(type, relation) == RelationshipHandler(type, relation).serializer_class

RECURSIVE DeclaredPath(_, _)
\* an include entry whose every segment is a declared relationship of the
\* type the segments before it lead to (None and "" name nothing)
DeclaredPath(type, entry) ==
    \/ entry \in {<<>>, <<"">>}
    \/ /\ entry[1] \in Range(define_relationships(type))
       /\ DeclaredPath(RelatedType(type, entry[1]), Tail(entry))

\* include entries that name no relationship of any type, None and ""
CommonIncludes == {<<>>, <<"">>, <<"zzz">>, <<"foo", "bar">>}

\* include entries a request may carry
IncludeEntries ==
    CommonIncludes \cup
    {<<"branches">>, <<"branches", "leaves">>, <<"branches", "trunk">>,
     <<"branches", "zzz">>,
     <<"branch">>, <<"branch", "trunk">>, <<"branch", "trunk", "branches">>,
     <<"branch", "zzz">>,
     <<"leaves">>, <<"leaves", "branch">>, <<"trunk">>, <<"trunk", "branches">>}

\* the include lists tried on a builder of a type: the empty list, every
\* entry alone, every pair of entries whose first segment is declared for
\* the type, and the pairs that mix None, "" and undeclared names
IncludeLists(type) ==
    LET declared == {e \in IncludeEntries \ CommonIncludes :
                        e[1] \in Range(define_relationships(type))}
    IN {<<>>}
       \cup {<<e>> : e \in declared \cup CommonIncludes}
       \cup {<<a, b>> : a \in declared, b \in declared}
       \cup {<<a, b>> : a \in CommonIncludes, b \in {<<"zzz">>}}
       \cup {<<a, b>> : a \in {<<>>, <<"">>}, b \in declared}

\* the sparse fieldset maps tried: none, one type (a declared type or the
\* undeclared "foo") with a declared, an empty or an undeclared field list,
\* and the two types of include=branches.leaves
FieldsetRequests ==
    {<<>>}
    \cup {(t :> f) : t \in Types, f \in {{}, {"name"}, {"blah"}}}
    \cup {("foo" :> {"blah"})}
    \cup {("branch" :> {"name"}) @@ ("leaf" :> {"name"})}

\* the context a builder is constructed with: no request (the mixins pass
\* no context keyword), or a request whose path resolves or matches no
\* route, with the page[relation][size] and [number] of its query string
NoContext == [request |-> FALSE, resolves |-> FALSE, GET |-> <<>>]

RequestContext == [request |-> TRUE, resolves |-> TRUE, GET |-> <<>>]

\* the relationship pagination parameters tried
PageRequests ==
    {(r :> [size |-> sz, number |-> n]) :
         r \in {"branches", "leaves"}, sz \in 1..MaxPageSize, n \in 1..MaxPageNumber}

\* the builds tried on a type: every include list with every sparse
\* fieldset map under a request without pagination; every declared
\* include path alone, without sparse fieldsets, under every pagination;
\* a few include lists under no request and under a request whose path
\* matches no route
Requests(type) ==
    [include : IncludeLists(type), only_fields : FieldsetRequests,
     context : {RequestContext}]
    \cup [include : {<<e>> : e \in {d \in IncludeEntries \ CommonIncludes :
                                        DeclaredPath(type, d)}},
          only_fields : {<<>>},
          context : {[RequestContext EXCEPT !.GET = g] : g \in PageRequests}]
    \cup [include : {<<>>, <<<<"zzz">>>>}
                    \cup {<<<<r>>>> : r \in Range(define_relationships(type))},
          only_fields : {<<>>, ("foo" :> {"blah"}), (type :> {"blah"})},
          context : {NoContext, [RequestContext EXCEPT !.resolves = FALSE]}]

NoRequest == [many |-> FALSE, type |-> "", ids |-> <<>>, include |-> <<>>,
              only_fields |-> <<>>, context |-> NoContext]

\* no handler constructed, no call made
NoHandler == [read_only |-> FALSE, many |-> FALSE, related_field |-> FALSE,
              default_page_size |-> NoPageSize]

NoCall == [op |-> "", raised |-> "none"]

\* JSON values as the validator receives them: [kind, value] with value a
\* function of the member names for a dict, the sequence of the elements for
\* a list, <<s>> for a string, <<n>> for a number and <<>> for None
JNone == [kind |-> "None", value |-> <<>>]

JStr(s) == [kind |-> "str", value |-> <<s>>]

JInt(n) == [kind |-> "int", value |-> <<n>>]

JList(elements) == [kind |-> "list", value |-> elements]

JDict(members) == [kind |-> "dict", value |-> members]

\* no create request handled yet
NoCreate == [op |-> "", trace |-> <<>>, raised |-> "none", response |-> ""]

\* no validator method called yet
NoValidation == [op |-> "", data_dict |-> JNone, ret |-> <<>>, raised |-> "none"]

NoOutcome == [data |-> [many |-> FALSE, items |-> <<>>], included |-> <<>>,
              accumulator |-> <<>>, included_types |-> {}, exc |-> NoExc,
              fetches |-> 0, built |-> 0, depth |-> 0]

db == [branch_trunk |-> branch_trunk, leaf_branch |-> leaf_branch]

---------------------------------------------------------------------------
(* The state machine *)

Init ==
    /\ branch_trunk = [b \in Ids |-> 1]
    /\ leaf_branch = [l \in Ids |-> 1]
    /\ writes = 0
    /\ pc = "idle"
    /\ request = NoRequest
    /\ outcome = NoOutcome
    /\ document = Document
    /\ rendered = <<>>
    /\ handler_self = NoHandler
    /\ handler_resource = {}
    /\ handler_call = NoCall
    /\ validator_call = NoValidation
    /\ create_call = NoCreate

\* the handler of branch.trunk sets the related trunk of a branch
set_related_trunk(b, t) ==
    /\ pc = "idle"
    /\ writes < MaxWrites
    /\ branch_trunk[b] # t
    /\ branch_trunk' = [branch_trunk EXCEPT ![b] = t]
    /\ writes' = writes + 1
    /\ UNCHANGED <<leaf_branch, pc, request, outcome, document, rendered>>
    /\ UNCHANGED <<handler_vars, validator_call, create_call>>

\* the handler of leaf.branch sets the related branch of a leaf
set_related_branch(l, b) ==
    /\ pc = "idle"
    /\ writes < MaxWrites
    /\ leaf_branch[l] # b
    /\ leaf_branch' = [leaf_branch EXCEPT ![l] = b]
    /\ writes' = writes + 1
    /\ UNCHANGED <<branch_trunk, pc, request, outcome, document, rendered>>
    /\ UNCHANGED <<handler_vars, validator_call, create_call>>

\* the response to a build: the document with data and included on success,
\* the exception handler's error document when the build raised an Error or
\* an APIException; another exception leaves the document as it was and
\* nothing is rendered
respond(req, out, doc) ==
    LET d == IF out.exc.kind = "none"
             THEN [doc EXCEPT !.data = out.data, !.included = out.included]
             ELSE IF out.exc.kind \in {"Error", "ParseError"}
             THEN [Document EXCEPT
                      !.errors = <<ErrorSerializer_to_representation(out.exc)>>]
             ELSE doc
    IN /\ request' = req
       /\ outcome' = out
       /\ document' = d
       /\ rendered' = IF out.exc.kind \in {"none", "Error", "ParseError"}
                      THEN DocumentSerializer_to_representation(d)
                      ELSE <<>>
       /\ pc' = "done"
       /\ UNCHANGED <<branch_trunk, leaf_branch, writes>>
       /\ UNCHANGED <<handler_vars, validator_call, create_call>>

\* RetrieveMixin.retrieve: one entity, many=False
retrieve(type, id, include, only_fields, context) ==
    /\ pc = "idle"
    /\ respond([many |-> FALSE, type |-> type, ids |-> <<id>>,
                include |-> include, only_fields |-> only_fields,
                context |-> context],
               serialize(db, type, [many |-> FALSE, items |-> <<Instance(type, id)>>],
                         include, only_fields, TRUE, context),
               document)

\* ListMixin.list: the collection of a type ordered by id, many=True
list(type, include, only_fields, context) ==
    LET collection == [i \in DOMAIN SeqOfSet(Ids) |-> Instance(type, SeqOfSet(Ids)[i])]
        n == Len(collection)
        paged == [document EXCEPT
                     !.meta = [count |-> n, has_next |-> FALSE,
                               has_previous |-> FALSE, page |-> 1,
                               num_pages |-> 1],
                     !.links = [first |-> 1, last |-> 1]]
    IN /\ pc = "idle"
       /\ respond([many |-> TRUE, type |-> type, ids |-> SeqOfSet(Ids),
                   include |-> include, only_fields |-> only_fields,
                   context |-> context],
                  serialize(db, type, [many |-> TRUE, items |-> collection],
                            include, only_fields, TRUE, context),
                  paged)

\* ViewSet.initial of the next request: a fresh Document
initial ==
    /\ pc = "done"
    /\ pc' = "idle"
    /\ request' = NoRequest
    /\ outcome' = NoOutcome
    /\ document' = Document
    /\ rendered' = <<>>
    /\ UNCHANGED <<branch_trunk, leaf_branch, writes>>
    /\ UNCHANGED <<handler_vars, validator_call, create_call>>

Next ==
    \/ \E b \in Ids, t \in Ids : set_related_trunk(b, t)
    \/ \E l \in Ids, b \in Ids \cup {NoId} : set_related_branch(l, b)
    \/ \E type \in Types, id \in Ids :
           \E r \in Requests(type) :
               retrieve(type, id, r.include, r.only_fields, r.context)
    \/ \E type \in Types :
           \E r \in Requests(type) :
               list(type, r.include, r.only_fields, r.context)
    \/ initial

Spec == Init /\ [][Next]_vars

---------------------------------------------------------------------------
(* Documents built by hand: a Document constructed from keyword arguments,
   then errors assigned, then rendered (DocumentSerializerTestCase) *)

SomeResource == [type |-> "test", id |-> 12345]

SomeIncluded == [type |-> "included_thing", id |-> 5678,
                 attributes |-> [foo |-> "bar"]]

SomeError == [detail |-> "This is an error"]

\* the keyword arguments Document is constructed with
DocumentKwargs ==
    [data : {<<>>,
             [many |-> FALSE, items |-> <<>>],
             [many |-> FALSE, items |-> <<SomeResource>>],
             [many |-> TRUE, items |-> <<>>],
             [many |-> TRUE, items |-> <<SomeResource>>]},
     errors : {<<>>, <<SomeError>>},
     meta : {<<>>, [foo |-> "bar"]},
     jsonapi : {<<>>, [version |-> "1.0"]},
     links : {<<>>, [google |-> "https://google.com"]},
     included : {<<>>, <<SomeIncluded>>}]

DocInit ==
    /\ branch_trunk = [b \in Ids |-> 1]
    /\ leaf_branch = [l \in Ids |-> 1]
    /\ writes = 0
    /\ pc = "idle"
    /\ request = NoRequest
    /\ outcome = NoOutcome
    /\ document \in DocumentKwargs
    /\ rendered = <<>>
    /\ handler_self = NoHandler
    /\ handler_resource = {}
    /\ handler_call = NoCall
    /\ validator_call = NoValidation
    /\ create_call = NoCreate

\* document.errors = [...]
document_set_errors(errors) ==
    /\ pc = "idle"
    /\ document.errors # errors
    /\ document' = [document EXCEPT !.errors = errors]
    /\ UNCHANGED <<branch_trunk, leaf_branch, writes, pc, request, outcome, rendered>>
    /\ UNCHANGED <<handler_vars, validator_call, create_call>>

\* DocumentSerializer(document).data
document_render ==
    /\ pc = "idle"
    /\ rendered' = DocumentSerializer_to_representation(document)
    /\ pc' = "done"
    /\ UNCHANGED <<branch_trunk, leaf_branch, writes, request, outcome, document>>
    /\ UNCHANGED <<handler_vars, validator_call, create_call>>

DocNext ==
    \/ \E errors \in {<<>>, <<SomeError>>} : document_set_errors(errors)
    \/ document_render

DocSpec == DocInit /\ [][DocNext]_vars

---------------------------------------------------------------------------
(* RelationshipHandler constructed and called directly, as the handler
   tests do: validate, apply_pagination, set_related, add_related,
   remove_related *)

\* settings.DEFAULT_PAGE_SIZE, here the default_page_size of a handler
\* class that sets one
DEFAULT_PAGE_SIZE == 10

\* RelationshipHandler.__init__: the attributes of the handler; related_field
\* is whether one is set
RelationshipHandler_init(read_only, many, related_field, default_page_size) ==
    [read_only |-> read_only, many |-> many, related_field |-> related_field,
     default_page_size |-> default_page_size]

\* the payloads given to validate: lists, a dict, None, a string, a number
Payloads ==
    {[kind |-> "list", value |-> <<>>],
     [kind |-> "list", value |-> <<[type |-> "leaf", id |-> 1]>>],
     [kind |-> "dict", value |-> <<[type |-> "leaf", id |-> 1]>>],
     [kind |-> "None", value |-> <<>>],
     [kind |-> "str", value |-> <<"leaf">>],
     [kind |-> "int", value |-> <<5>>]}

\* RelationshipHandler.validate accepting every payload of a to-one handler
validate_any_to_one(self, data) ==
    IF self.many /\ data.kind # "list"
    THEN [raised |-> "ParseError", returned |-> <<>>]
    ELSE [raised |-> "none", returned |-> <<data>>]

\* RelationshipHandler.validate, as [raised, returned]
validate(self, data) ==
    IF self.many /\ data.kind # "list"
    THEN [raised |-> "ParseError", returned |-> <<>>]
    ELSE IF ~self.many /\ ~(data.kind = "dict" \/ data.kind = "None")
    THEN [raised |-> "ParseError", returned |-> <<>>]
    ELSE [raised |-> "none", returned |-> <<data>>]

\* RelationshipHandler.set_related, as [resource, raised]: resource the
\* value of the related field afterwards
set_related(self, value, related) ==
    IF ~self.related_field
    THEN [resource |-> value, raised |-> "NotImplementedError"]
    ELSE [resource |-> related, raised |-> "none"]

\* RelationshipHandler.add_related
add_related(self, value, related) ==
    IF ~self.many
    THEN [resource |-> value, raised |-> "AssertionError"]
    ELSE IF ~self.related_field
    THEN [resource |-> value, raised |-> "NotImplementedError"]
    ELSE [resource |-> value \cup related, raised |-> "none"]

\* RelationshipHandler.remove_related
remove_related(self, value, related) ==
    IF ~self.many
    THEN [resource |-> value, raised |-> "AssertionError"]
    ELSE IF ~self.related_field
    THEN [resource |-> value, raised |-> "NotImplementedError"]
    ELSE [resource |-> value \ related, raised |-> "none"]

HandlerInit ==
    /\ branch_trunk = [b \in Ids |-> 1]
    /\ leaf_branch = [l \in Ids |-> 1]
    /\ writes = 0
    /\ pc = "idle"
    /\ request = NoRequest
    /\ outcome = NoOutcome
    /\ document = Document
    /\ rendered = <<>>
    /\ \E read_only \in BOOLEAN, many \in BOOLEAN, related_field \in BOOLEAN,
          default_page_size \in {NoPageSize, DEFAULT_PAGE_SIZE} :
           handler_self = RelationshipHandler_init(read_only, many, related_field,
                                                   default_page_size)
    /\ handler_resource \in {{}, {1}}
    /\ handler_call = NoCall
    /\ validator_call = NoValidation
    /\ create_call = NoCreate

\* handler.validate(data)
handler_validate(data) ==
    /\ pc = "idle"
    /\ handler_call' = [op |-> "validate", data |-> data]
                       @@ validate(handler_self, data)
    /\ pc' = "done"
    /\ UNCHANGED <<branch_trunk, leaf_branch, writes, request, outcome, document,
                   rendered, handler_self, handler_resource, validator_call, create_call>>

\* handler.apply_pagination(list(range(count)), page_size, page_number)
handler_apply_pagination(count, page_size, page_number) ==
    LET related == [i \in 1..count |-> i]
        r == apply_pagination(handler_self.default_page_size, related,
                              page_size, page_number)
    IN /\ pc = "idle"
       /\ handler_call' = [op |-> "apply_pagination", related |-> related,
                           page_size |-> page_size, page_number |-> page_number,
                           raised |-> r.exc.kind,
                           object_list |-> r.object_list, meta |-> r.meta]
       /\ pc' = "done"
       /\ UNCHANGED <<branch_trunk, leaf_branch, writes, request, outcome, document,
                      rendered, handler_self, handler_resource, validator_call, create_call>>

\* a call r of set_related, add_related or remove_related on the resource
handler_write(op, related, r) ==
    /\ pc = "idle"
    /\ writes < MaxWrites
    /\ writes' = writes + 1
    /\ handler_resource' = r.resource
    /\ handler_call' = [op |-> op, related |-> related,
                        before |-> handler_resource, raised |-> r.raised]
    /\ UNCHANGED <<branch_trunk, leaf_branch, pc, request, outcome, document,
                   rendered, handler_self, validator_call, create_call>>

handler_set_related(related) ==
    handler_write("set_related", related,
                  set_related(handler_self, handler_resource, related))

handler_add_related(related) ==
    handler_write("add_related", related,
                  add_related(handler_self, handler_resource, related))

handler_remove_related(related) ==
    handler_write("remove_related", related,
                  remove_related(handler_self, handler_resource, related))

HandlerNext ==
    \/ \E data \in Payloads : handler_validate(data)
    \/ \E count \in 0..MaxCount, page_size \in 0..MaxPerPage,
          page_number \in 0..MaxNumber :
           handler_apply_pagination(count, page_size, page_number)
    \/ \E related \in SUBSET Ids : handler_set_related(related)
    \/ \E related \in SUBSET Ids : handler_add_related(related)
    \/ \E related \in SUBSET Ids : handler_remove_related(related)

HandlerSpec == HandlerInit /\ [][HandlerNext]_vars

---------------------------------------------------------------------------
(* CreateMixin.create (drf_jsonapi/mixins.py) with the collaborators' calls *)

\* ViewSet.get_relationships of the viewset of a create request: a to-one
\* and a to-many handler whose get_serializer_class gives the serializer of
\* type test_resource
get_relationships ==
    [related_thing |-> [many |-> FALSE], related_things |-> [many |-> TRUE]]

\* ViewSet.get_relationship_handler
get_relationship_handler(relation) ==
    IF relation \notin DOMAIN get_relationships
    THEN [handler |-> [many |-> FALSE], raised |-> "ParseError"]
    ELSE [handler |-> get_relationships[relation], raised |-> "none"]

\* ResourceSerializer.from_identity(data, many=False) of the serializer of
\* type test_resource: validate_resource_type, then the id
from_identity_one(data) ==
    IF data.kind \in {"None", "int"} THEN "TypeError"
    ELSE IF data.kind # "dict" THEN "ParseError"
    ELSE IF "type" \notin DOMAIN data.value THEN "ParseError"
    ELSE IF data.value["type"] # JStr("test_resource") THEN "ParseError"
    ELSE IF "id" \notin DOMAIN data.value THEN "ParseError"
    ELSE "none"

\* ResourceSerializer.from_identity: what it raises
from_identity(data, many) ==
    IF ~many THEN from_identity_one(data)
    ELSE IF \E i \in DOMAIN data.value : from_identity_one(data.value[i]) # "none"
    THEN from_identity_one(
             data.value[CHOOSE i \in DOMAIN data.value :
                            /\ from_identity_one(data.value[i]) # "none"
                            /\ \A j \in 1..(i - 1) :
                                   from_identity_one(data.value[j]) = "none"])
    ELSE "none"

\* the body of the loop of process_relationships for one relation: what it
\* raises before handler.set_related is called
process_relationship(relation, data) ==
    LET h == get_relationship_handler(relation)
    IN IF h.raised # "none" THEN h.raised
       ELSE IF data.kind # "dict" THEN "TypeError"
       ELSE IF "data" \notin DOMAIN data.value THEN "KeyError"
       ELSE IF validate(h.handler, data.value["data"]).raised # "none"
       THEN validate(h.handler, data.value["data"]).raised
       ELSE from_identity(data.value["data"], h.handler.many)

RECURSIVE process_relationships(_, _)
\* ProcessRelationshipsMixin.process_relationships over the items of
\* relationship_data in order, the calls made so far in trace
process_relationships(relationship_data, trace) ==
    IF relationship_data = <<>> THEN [trace |-> trace, raised |-> "none"]
    ELSE LET relation == Head(relationship_data)[1]
             raised == process_relationship(relation, Head(relationship_data)[2])
         IN IF raised # "none" THEN [trace |-> trace, raised |-> raised]
            ELSE process_relationships(Tail(relationship_data),
                                       Append(trace, <<"set_related", relation>>))

\* the first loop of process_to_one_relationships and of
\* process_to_many_relationships: the items whose handler has the given
\* many, ParseError when a relation has no handler
select_relationships(relationship_data, many) ==
    IF \E i \in DOMAIN relationship_data :
           get_relationship_handler(relationship_data[i][1]).raised # "none"
    THEN [selected |-> <<>>, raised |-> "ParseError"]
    ELSE [selected |-> SelectSeq(relationship_data,
                                 LAMBDA item : get_relationship_handler(item[1]).handler.many = many),
          raised |-> "none"]

\* ProcessRelationshipsMixin.process_to_many_relationships
process_to_many_relationships(relationship_data, trace) ==
    LET s == select_relationships(relationship_data, TRUE)
    IN IF s.raised # "none" THEN [trace |-> trace, raised |-> s.raised]
       ELSE process_relationships(s.selected, trace)

\* process_to_one_relationships keeping the relations whose handler is
\* to-many
process_to_one_relationships_keeps_many(relationship_data, trace) ==
    LET s == select_relationships(relationship_data, TRUE)
    IN IF s.raised # "none" THEN [trace |-> trace, raised |-> s.raised]
       ELSE process_relationships(s.selected, trace)

\* ProcessRelationshipsMixin.process_to_one_relationships
process_to_one_relationships(relationship_data, trace) ==
    LET s == select_relationships(relationship_data, FALSE)
    IN IF s.raised # "none" THEN [trace |-> trace, raised |-> s.raised]
       ELSE process_relationships(s.selected, trace)

\* CreateMixin.create: data is request.data["data"] as [is_valid,
\* has_relationships, relationships], relationships the items of its
\* relationships member in order; the result is the calls made on the
\* collaborators, what was raised and the response returned
CreateMixin_create(data) ==
    LET one == IF data.has_relationships
               THEN process_to_one_relationships(data.relationships, <<>>)
               ELSE [trace |-> <<>>, raised |-> "none"]
        saved == Append(one.trace, <<"save">>)
        many == IF data.has_relationships
                THEN process_to_many_relationships(data.relationships, saved)
                ELSE [trace |-> saved, raised |-> "none"]
    IN IF ~data.is_valid
       THEN [trace |-> <<>>, raised |-> "none", response |-> "error_response"]
       ELSE IF one.raised # "none"
       THEN [trace |-> one.trace, raised |-> one.raised, response |-> ""]
       ELSE IF many.raised # "none"
       THEN [trace |-> many.trace, raised |-> many.raised, response |-> ""]
       ELSE [trace |-> many.trace, raised |-> "none", response |-> "Response"]

\* the relationship names of the payloads: the two declared ones and an
\* undeclared one
RelationNames == {"related_thing", "related_things", "bogus_relationship"}

\* the values a payload gives for a relationship
RelationValues ==
    LET identifier == JDict([type |-> JStr("test_resource"), id |-> JStr("5")])
    IN {JDict([data |-> identifier]),
        JDict([data |-> JList(<<identifier, identifier>>)]),
        JDict([data |-> JList(<<>>)]),
        JDict([data |-> JNone]),
        JDict([data |-> JDict([type |-> JStr("test_resource")])]),
        JDict([meta |-> JDict(<<>>)])}

\* the payloads of the create requests: with valid attributes or not,
\* without relationships member or with one of up to two relationships
CreatePayloads ==
    LET items == RelationNames \X RelationValues
    IN [is_valid : BOOLEAN, has_relationships : {FALSE}, relationships : {<<>>}]
       \cup [is_valid : BOOLEAN, has_relationships : {TRUE},
             relationships : {<<>>} \cup {<<a>> : a \in items}
                             \cup {p \in {<<a, b>> : a \in items, b \in items} :
                                      p[1][1] # p[2][1]}]

CreateInit ==
    /\ branch_trunk = [b \in Ids |-> 1]
    /\ leaf_branch = [l \in Ids |-> 1]
    /\ writes = 0
    /\ pc = "idle"
    /\ request = NoRequest
    /\ outcome = NoOutcome
    /\ document = Document
    /\ rendered = <<>>
    /\ handler_self = NoHandler
    /\ handler_resource = {}
    /\ handler_call = NoCall
    /\ validator_call = NoValidation
    /\ create_call = NoCreate

\* viewset.create(request)
viewset_create(data) ==
    /\ pc = "idle"
    /\ create_call' = [op |-> "create", data |-> data] @@ CreateMixin_create(data)
    /\ pc' = "done"
    /\ UNCHANGED <<branch_trunk, leaf_branch, writes, request, outcome, document,
                   rendered, handler_vars, validator_call>>

CreateNext ==
    /\ pc = "idle"
    /\ \E data \in CreatePayloads : viewset_create(data)

CreateSpec == CreateInit /\ [][CreateNext]_vars

---------------------------------------------------------------------------
(* JsonApiValidator (drf_jsonapi/validator.py), its checks called directly *)

\* what a validator method does: it returns the list ret, or raises
Returned(ret) == [ret |-> ret, raised |-> "none"]

Raised(kind) == [ret |-> <<>>, raised |-> kind]

\* the strings URLValidator accepts, among those of the payloads
ValidUrls == {"http://dead.net"}

\* set(s) of a string s of the payloads: its characters
Chars(s) ==
    CASE s = "x" -> {"x"}
      [] s = "stuff" -> {"s", "t", "u", "f"}
      [] s = "1.0" -> {"1", ".", "0"}
      [] s = "http://dead.net" -> {"h", "t", "p", ":", "/", "d", "e", "a", ".", "n"}

\* `key in v`: a member of a dict, an element of a list, a substring of a
\* string (no member name is a proper substring of a string of the payloads)
Contains(key, v) ==
    CASE v.kind = "dict" -> key \in DOMAIN v.value
      [] v.kind = "list" -> \E i \in DOMAIN v.value :
                                /\ v.value[i].kind = "str"
                                /\ v.value[i].value[1] = key
      [] v.kind = "str" -> key = v.value[1]

\* whether set(v) can be built: v is iterable and its elements hashable
Iterable(v) ==
    \/ v.kind \in {"dict", "str"}
    \/ /\ v.kind = "list"
       /\ \A i \in DOMAIN v.value : v.value[i].kind \in {"str", "None", "int"}

\* set(v), as the strings the messages print
KeySet(v) ==
    CASE v.kind = "dict" -> DOMAIN v.value
      [] v.kind = "str" -> Chars(v.value[1])
      [] v.kind = "list" ->
            {IF v.value[i].kind = "str" THEN v.value[i].value[1] ELSE v.value[i].kind :
                 i \in DOMAIN v.value}

\* the elements of a set in the order a loop over it visits them
RECURSIVE SeqOfKeys(_)

SeqOfKeys(S) ==
    IF S = {} THEN <<>>
    ELSE LET k == CHOOSE x \in S : TRUE
         IN <<k>> \o SeqOfKeys(S \ {k})

\* the violation messages
MustContain(entity_name, key) ==
    <<"MUST contain element of type", entity_name, key>>

MustContainOne(entity_name) ==
    <<"MUST contain one of", entity_name>>

MustNotContain(entity_name, key) ==
    <<"MUST NOT contain element of type", entity_name, key>>

MustNotContainBoth(entity_name, one, two) ==
    <<"MUST NOT contain both of", entity_name, one, two>>

PrimaryDataMessage == <<"Primary data MUST be either">>

ErrorsArrayMessage == <<"'Errors' object MUST be an array">>

AttributesEmptyMessage == <<"Object of type 'Attributes Object' must not be empty">>

NotValidUrl(url) == <<"is not a valid URL", url>>

\* the arguments of a call of _validate_section
SectionArgs(entity_name, must_contain, must_contain_one, may_contain, must_not_contain_both, must_not_contain) ==
    [entity_name |-> entity_name, must_contain |-> must_contain,
     must_contain_one |-> must_contain_one, may_contain |-> may_contain,
     must_not_contain_both |-> must_not_contain_both,
     must_not_contain |-> must_not_contain]

\* the methods that are one call of _validate_section
SectionNames ==
    {"top_level", "top_level_links_object", "resource_object",
     "resource_object_attributes", "resource_object_relationship",
     "resource_identifier_object", "links_object", "link_object",
     "jsonapi_object", "error_object"}

\* the arguments each of them passes; a member is <<key, validator>>, the
\* validator "" for None
Section(name) ==
    CASE name = "top_level" ->
            SectionArgs("Top-Level Object", <<>>,
                <<<<"data", "primary_data_element">>, <<"errors", "errors_object">>,
                  <<"meta", "">>>>,
                <<<<"jsonapi", "jsonapi_object">>, <<"links", "top_level_links_object">>,
                  <<"included", "resource_objects">>>>,
                <<<<"data", "errors">>>>, <<>>)
      [] name = "top_level_links_object" ->
            SectionArgs("Top-Level Links Object", <<>>, <<>>,
                <<<<"self", "link_object">>, <<"related", "links_object">>,
                  <<"first", "link_object">>, <<"next", "link_object">>,
                  <<"prev", "link_object">>, <<"last", "link_object">>>>,
                <<>>, <<>>)
      [] name = "resource_object" ->
            SectionArgs("Resource Object",
                <<<<"id", "">>, <<"type", "">>>>, <<>>,
                <<<<"attributes", "resource_object_attributes">>,
                  <<"relationships", "resource_object_relationships">>,
                  <<"links", "links_object">>, <<"meta", "meta">>>>,
                <<>>, <<>>)
      [] name = "resource_object_attributes" ->
            SectionArgs("Attributes Object", <<>>, <<>>, <<>>, <<>>,
                <<"relationships", "links">>)
      [] name = "resource_object_relationship" ->
            SectionArgs("Resource Object Relationship", <<>>,
                <<<<"links", "links_object">>, <<"self", "link_object">>,
                  <<"related", "url">>, <<"data", "resource_linkage">>,
                  <<"meta", "meta">>>>,
                <<>>, <<>>, <<>>)
      [] name = "resource_identifier_object" ->
            SectionArgs("Resource Identifier Object",
                <<<<"type", "">>, <<"id", "">>>>, <<>>,
                <<<<"meta", "meta">>>>, <<>>, <<>>)
      [] name = "links_object" ->
            SectionArgs("Links Object", <<>>,
                <<<<"self", "url">>, <<"related", "link_object">>>>,
                <<>>, <<>>, <<>>)
      [] name = "link_object" ->
            SectionArgs("Link Object", <<>>, <<>>,
                <<<<"href", "url">>, <<"meta", "meta">>>>, <<>>, <<>>)
      [] name = "jsonapi_object" ->
            SectionArgs("Error Object", <<>>, <<>>, <<<<"version", "">>>>, <<>>, <<>>)
      [] name = "error_object" ->
            SectionArgs("Error Object", <<>>, <<>>,
                <<<<"id", "">>, <<"links", "links_object">>, <<"about", "">>,
                  <<"status", "">>, <<"code", "">>, <<"title", "">>,
                  <<"detail", "">>, <<"source", "">>, <<"pointer", "">>,
                  <<"parameter", "">>, <<"meta", "">>>>,
                <<>>, <<>>)

\* the keys of a sequence of members
MemberKeys(members) == {members[i][1] : i \in DOMAIN members}

\* _validate_section without the check that two keys do not appear together
validate_section_checks_no_both(args, data_dict) ==
    IF ~Iterable(data_dict) THEN Raised("TypeError")
    ELSE LET keys == KeySet(data_dict)
             Missing(member) == ~Contains(member[1], data_dict)
             missing == SelectSeq(args.must_contain, Missing)
             unexpected ==
                 SeqOfKeys(keys \ (MemberKeys(args.may_contain)
                                   \cup MemberKeys(args.must_contain)
                                   \cup MemberKeys(args.must_contain_one)))
             prohibited == SeqOfKeys(Range(args.must_not_contain) \cap keys)
         IN Returned(
              [i \in DOMAIN missing |-> MustContain(args.entity_name, missing[i][1])]
              \o (IF /\ args.must_contain_one # <<>>
                     /\ MemberKeys(args.must_contain_one) \cap keys = {}
                  THEN <<MustContainOne(args.entity_name)>> ELSE <<>>)
              \o (IF args.may_contain # <<>>
                  THEN [i \in DOMAIN unexpected |->
                           MustNotContain(args.entity_name, unexpected[i])]
                  ELSE <<>>)
              \o [i \in DOMAIN prohibited |->
                     MustNotContain(args.entity_name, prohibited[i])])

\* _validate_section, lines 186-233: the checks of the keys of data_dict
validate_section_checks(args, data_dict) ==
    IF ~Iterable(data_dict) THEN Raised("TypeError")
    ELSE LET keys == KeySet(data_dict)
             Missing(member) == ~Contains(member[1], data_dict)
             missing == SelectSeq(args.must_contain, Missing)
             unexpected ==
                 SeqOfKeys(keys \ (MemberKeys(args.may_contain)
                                   \cup MemberKeys(args.must_contain)
                                   \cup MemberKeys(args.must_contain_one)))
             Both(pair) == Contains(pair[1], data_dict) /\ Contains(pair[2], data_dict)
             both == SelectSeq(args.must_not_contain_both, Both)
             prohibited == SeqOfKeys(Range(args.must_not_contain) \cap keys)
         IN Returned(
              [i \in DOMAIN missing |-> MustContain(args.entity_name, missing[i][1])]
              \o (IF /\ args.must_contain_one # <<>>
                     /\ MemberKeys(args.must_contain_one) \cap keys = {}
                  THEN <<MustContainOne(args.entity_name)>> ELSE <<>>)
              \o (IF args.may_contain # <<>>
                  THEN [i \in DOMAIN unexpected |->
                           MustNotContain(args.entity_name, unexpected[i])]
                  ELSE <<>>)
              \o [i \in DOMAIN both |->
                     MustNotContainBoth(args.entity_name, both[i][1], both[i][2])]
              \o [i \in DOMAIN prohibited |->
                     MustNotContain(args.entity_name, prohibited[i])])

\* a call of a validator method still to make: its name and its argument
Task(name, value) == [name |-> name, value |-> value]

\* _validate_section, lines 235-242: the validators of the members present,
\* in the order must_contain, must_contain_one, may_contain; data_dict[key]
\* of a list or a string raises TypeError
validate_section_tasks(args, data_dict) ==
    LET members == args.must_contain \o args.must_contain_one \o args.may_contain
        Called(member) == member[2] # "" /\ Contains(member[1], data_dict)
        called == SelectSeq(members, Called)
    IN [i \in DOMAIN called |->
           IF data_dict.kind = "dict"
           THEN Task(called[i][2], data_dict.value[called[i][1]])
           ELSE Task("TypeError", JNone)]

\* `if not isinstance(data_list, list): data_list = [data_list]`
as_list(data_list) ==
    IF data_list.kind = "list" THEN data_list.value ELSE <<data_list>>

\* one task of the named validator for each element
TaskEach(name, elements) == [i \in DOMAIN elements |-> Task(name, elements[i])]

\* the elements of the values of a relationships object, each value made a list
RECURSIVE relationship_elements(_, _)

relationship_elements(data_dict, keys) ==
    IF keys = <<>> THEN <<>>
    ELSE as_list(data_dict.value[Head(keys)])
         \o relationship_elements(data_dict, Tail(keys))

\* whether the method is, for this argument, one call of _validate_section
IsSection(name, value) ==
    CASE name = "resource_object_attributes" ->
            value.kind = "dict" /\ DOMAIN value.value # {}
      [] name = "link_object" -> value.kind = "dict"
      [] OTHER -> name \in SectionNames

\* what the method does before it calls any other validator method: the
\* messages it has so far, or what it raises
validate_own(name, value) ==
    CASE IsSection(name, value) -> validate_section_checks(Section(name), value)
      [] name = "TypeError" -> Raised("TypeError")
      [] name = "resource_object_attributes" /\ ~IsSection(name, value) ->
            Returned(<<AttributesEmptyMessage>>)
      [] name = "resource_object_relationships" /\ value.kind # "dict" ->
            Raised("AttributeError")
      [] name = "errors_object" /\ value.kind # "list" ->
            Returned(<<ErrorsArrayMessage>>)
      [] name = "url" /\ value.kind = "str" ->
            IF value.value[1] = "None" \/ value.value[1] \in ValidUrls
            THEN Returned(<<>>)
            ELSE Returned(<<NotValidUrl(value.value[1])>>)
      [] OTHER -> Returned(<<>>)

\* the validator calls the method then makes, in order
validate_tasks(name, value) ==
    CASE IsSection(name, value) -> validate_section_tasks(Section(name), value)
      [] name = "link_object" /\ ~IsSection(name, value) -> <<Task("url", value)>>
      [] name = "primary_data_element" ->
            IF (value.kind = "list" /\ value.value = <<>>) \/ value.kind = "None" THEN <<>>
            ELSE <<Task("resource_objects", value),
                   Task("resource_identifier_objects", value)>>
      [] name = "resource_objects" -> TaskEach("resource_object", as_list(value))
      [] name = "resource_object_relationships" /\ value.kind = "dict" ->
            TaskEach("resource_object_relationship",
                     relationship_elements(value, SeqOfKeys(DOMAIN value.value)))
      [] name = "resource_linkage" ->
            IF value.kind = "None" \/ (value.kind = "list" /\ value.value = <<>>) THEN <<>>
            ELSE <<Task("resource_identifier_objects", value)>>
      [] name = "resource_identifier_objects" ->
            TaskEach("resource_identifier_object", as_list(value))
      [] name = "errors_object" /\ value.kind = "list" ->
            TaskEach("error_object", value.value)
      [] OTHER -> <<>>

\* how the method puts the results of its calls together: "extend" appends
\* each list, "first" returns the first list that is not empty, "either"
\* returns no message as soon as one list is empty
validate_mode(name, value) ==
    CASE name = "primary_data_element"
         /\ ~((value.kind = "list" /\ value.value = <<>>) \/ value.kind = "None") -> "either"
      [] name = "resource_identifier_objects" -> "first"
      [] OTHER -> "extend"

\* the result of the calls of a method from the result of the first call
\* and that of the calls after it
validate_step(mode, first, rest) ==
    IF first.raised # "none" THEN first
    ELSE IF mode = "first" /\ first.ret # <<>> THEN first
    ELSE IF mode = "either" /\ first.ret = <<>> THEN first
    ELSE IF mode = "extend" /\ rest.raised = "none"
    THEN Returned(first.ret \o rest.ret)
    ELSE rest

\* the result of a method from its own part and that of its calls
validate_join(own, called) ==
    IF own.raised # "none" THEN own
    ELSE IF called.raised # "none" THEN called
    ELSE Returned(own.ret \o called.ret)

RECURSIVE validate_method(_, _)
RECURSIVE validate_calls(_, _)

\* the calls a method makes, one after the other
validate_calls(mode, tasks) ==
    IF tasks = <<>>
    THEN IF mode = "either" THEN Returned(<<PrimaryDataMessage>>) ELSE Returned(<<>>)
    ELSE validate_step(mode, validate_method(tasks[1].name, tasks[1].value),
                       validate_calls(mode, Tail(tasks)))

\* self._validate_<name>(value)
validate_method(name, value) ==
    validate_join(validate_own(name, value),
                  validate_calls(validate_mode(name, value),
                                 validate_tasks(name, value)))

\* JsonApiValidator._validate_top_level
validate_top_level(data_dict) == validate_method("top_level", data_dict)

\* a member of the top-level object that is not there
Absent == [kind |-> "absent", value |-> <<>>]

\* {"type": "test_type", "id": "test_id"}
valid_test_data_entry ==
    JDict("type" :> JStr("test_type") @@ "id" :> JStr("test_id"))

\* the values of each member of the top-level objects validated
TopLevelMembers ==
    [data : {Absent, valid_test_data_entry, JList(<<valid_test_data_entry>>),
             JList(<<>>), JNone, JDict(<<>>), JInt(5), JStr("x")},
     errors : {Absent, JList(<<>>), JDict(<<>>),
               JList(<<JDict("status" :> JStr("400"))>>)},
     meta : {Absent, JDict(<<>>), JList(<<>>)},
     jsonapi : {Absent, JDict(<<>>), JDict("version" :> JStr("1.0")),
                JDict("name" :> JStr("x"))},
     links : {Absent, JDict(<<>>), JDict("self" :> JStr("http://dead.net")),
              JDict("self" :> JStr("stuff"))},
     included : {Absent, JList(<<>>), JList(<<valid_test_data_entry>>),
                 JList(<<JDict(<<>>)>>), JDict(<<>>), JInt(5)},
     jsonvapi : {Absent, JDict(<<>>)}]

\* the top-level object with the members that are there
TopLevelObject(members) ==
    JDict([key \in {k \in DOMAIN members : members[k].kind # "absent"} |-> members[key]])

\* the characters of a member name of the payloads; the names not listed
\* hold lower-case letters only
MemberNameChars(key) ==
    CASE key = "" -> <<>>
      [] key = "_a" -> <<"_", "a">>
      [] key = "b-" -> <<"b", "-">>
      [] key = "c+d" -> <<"c", "+", "d">>
      [] key = "-" -> <<"-">>
      [] key = "b@d" -> <<"b", "@", "d">>
      [] OTHER -> <<"a">>

\* the characters whose code is in the lists the method starts with
\* (lines 981-1051), some of them by name: the quotation mark, the reverse
\* solidus, the grave accent, and "(C0)" for DELETE and the control
\* characters
InitialLists ==
    [disallowed_boundary_chars |-> {"-", "_", " "},
     disallowed_chars |-> {"+", ",", ".", "[", "]", "!", "(quotation mark)", "#", "$", "%", "&",
                           "'", "(", ")", "*", "/", ":", ";", "<", "=", ">", "?",
                           "@", "(reverse solidus)", "^", "(grave accent)",
                           "{", "|", "}", "~", "(C0)"}]

\* the lists after a key that is not empty: lines 1058 and 1071 assign the
\* characters found to the two names, and no `ord(char)` is in a list of
\* characters
ReassignedLists == [disallowed_boundary_chars |-> {}, disallowed_chars |-> {}]

\* _validate_member_names, lines 1055-1083: the messages for one key and
\* the two lists afterwards
member_names_key(key, lists) ==
    LET name == MemberNameChars(key)
        boundary == IF name = <<>> THEN <<>> ELSE <<name[1], name[Len(name)]>>
        InBoundary(char) == char \in lists.disallowed_boundary_chars
        InChars(char) == char \in lists.disallowed_chars
        bad_boundary == SelectSeq(boundary, InBoundary)
        bad_chars == SelectSeq(name, InChars)
    IN [ret |-> IF key = ""
                THEN <<<<"<empty_string> is not a valid Member Name">>>>
                ELSE [i \in DOMAIN bad_boundary |->
                         <<"is not a valid boundary character in a Member Name",
                           bad_boundary[i]>>]
                     \o [i \in DOMAIN bad_chars |->
                            <<"is not a valid character in a Member Name",
                              bad_chars[i]>>],
        lists |-> IF key = "" THEN lists ELSE ReassignedLists]

\* data_dict.items(): the keys of the dict in the order the payload has them
dict_keys(data_dict, order) ==
    LET Present(key) == key \in DOMAIN data_dict.value
    IN SelectSeq(order, Present)

\* a call of _validate_member_names under way: its dict, the keys its loop
\* has still to visit, its two lists
MemberNamesFrame(data_dict, order) ==
    [data_dict |-> data_dict, keys |-> dict_keys(data_dict, order),
     lists |-> InitialLists]

\* one step of the calls under way, the innermost first: the next key of
\* the innermost loop and, when its value is a dict, the call for it
\* (line 1084); a loop that is over returns
member_names_step(stack, order) ==
    LET top == stack[1]
        key == Head(top.keys)
        val == top.data_dict.value[key]
        checked == member_names_key(key, top.lists)
        after == [top EXCEPT !.keys = Tail(top.keys), !.lists = checked.lists]
    IN IF top.keys = <<>> THEN [stack |-> Tail(stack), ret |-> <<>>]
       ELSE [stack |-> (IF val.kind = "dict"
                        THEN <<MemberNamesFrame(val, order)>> ELSE <<>>)
                       \o <<after>> \o Tail(stack),
             ret |-> checked.ret]

RECURSIVE member_names_loop(_, _, _)

member_names_loop(stack, order, ret) ==
    IF stack = <<>> THEN ret
    ELSE member_names_loop(member_names_step(stack, order).stack, order,
                           ret \o member_names_step(stack, order).ret)

\* JsonApiValidator._validate_member_names(data_dict)
validate_member_names(data_dict, order) ==
    IF data_dict.kind # "dict" THEN Raised("AttributeError")
    ELSE Returned(member_names_loop(<<MemberNamesFrame(data_dict, order)>>, order, <<>>))

\* the member names of the payloads whose names are validated, in the two
\* orders a payload has them
NameOrders ==
    {<<"", "ok", "_a", "b-", "c+d", "-">>, <<"-", "c+d", "b-", "_a", "ok", "">>}

\* the values of a member: a string, a dict, a dict in a dict, a dict in
\* a list
NameValues ==
    {JStr("x"), JDict("ok" :> JStr("x")), JDict("_a" :> JStr("x")),
     JDict("ok" :> JDict("c+d" :> JStr("x"))),
     JList(<<JDict("_a" :> JStr("x"))>>)}

\* the payloads: dicts of at most two members
NamePayloads ==
    {JDict(<<>>)}
    \cup {JDict(k :> v) : k \in Range(CHOOSE o \in NameOrders : TRUE), v \in NameValues}
    \cup {JDict(k1 :> v1 @@ k2 :> v2) :
            k1 \in Range(CHOOSE o \in NameOrders : TRUE),
            k2 \in Range(CHOOSE o \in NameOrders : TRUE),
            v1 \in NameValues, v2 \in NameValues}

\* JsonApiValidator._validate_headers
validate_headers(response) ==
    IF response.status_code = 204 THEN Returned(<<>>)
    ELSE IF response.content_type = "absent"
    THEN Returned(<<<<"Non-empty Response MUST have 'Content-Type' header">>>>)
    ELSE IF response.content_type # "application/vnd.api+json"
    THEN Returned(<<<<"'Content-Type' header MUST be equal to", "application/vnd.api+json">>>>)
    ELSE Returned(<<>>)

\* JsonApiValidator._validate: the errors is_valid stores; order is the
\* order the payload has its keys in
validate_response(response, order) ==
    LET no_data == \/ response.data.kind = "None"
                   \/ response.data.kind = "dict" /\ DOMAIN response.data.value = {}
                   \/ response.data.kind = "list" /\ response.data.value = <<>>
    IN IF ~response.is_response
       THEN Returned(<<<<"Response must be of type Response">>>>)
       ELSE IF no_data /\ response.status_code # 204
       THEN Returned(<<<<"A server MUST return 204 No Content status code when there is no response document">>>>)
       ELSE IF no_data THEN Returned(<<>>)
       ELSE validate_join(validate_join(validate_headers(response),
                                        validate_member_names(response.data, order)),
                          validate_top_level(response.data))

\* the responses given to is_valid: their payloads have data and included
\* members only, or are not an object
Responses ==
    [is_response : BOOLEAN, status_code : {200, 204},
     content_type : {"absent", "application/vnd.api+json", ""},
     data : {JNone, JList(<<valid_test_data_entry>>),
             JDict("data" :> JDict("b@d" :> JStr("stuff")))}
            \cup {TopLevelObject(members) :
                    members \in {t \in TopLevelMembers :
                                    \A key \in DOMAIN t \ {"data", "included"} :
                                        t[key].kind = "absent"}}]

\* the order the payloads of the responses have their keys in
ResponseOrder == <<"data", "included", "type", "id", "b@d">>

ValidatorInit ==
    /\ branch_trunk = [b \in Ids |-> 1]
    /\ leaf_branch = [l \in Ids |-> 1]
    /\ writes = 0
    /\ pc = "idle"
    /\ request = NoRequest
    /\ outcome = NoOutcome
    /\ document = Document
    /\ rendered = <<>>
    /\ handler_self = NoHandler
    /\ handler_resource = {}
    /\ handler_call = NoCall
    /\ validator_call = NoValidation
    /\ create_call = NoCreate

\* validator._validate_top_level(data_dict)
validator_validate_top_level(data_dict) ==
    /\ pc = "idle"
    /\ validator_call' = [op |-> "_validate_top_level", data_dict |-> data_dict]
                         @@ validate_top_level(data_dict)
    /\ pc' = "done"
    /\ UNCHANGED <<branch_trunk, leaf_branch, writes, request, outcome, document,
                   rendered, handler_vars, create_call>>

\* validator._validate_member_names(data_dict)
validator_validate_member_names(data_dict, order) ==
    /\ pc = "idle"
    /\ validator_call' = [op |-> "_validate_member_names", data_dict |-> data_dict,
                          order |-> order]
                         @@ validate_member_names(data_dict, order)
    /\ pc' = "done"
    /\ UNCHANGED <<branch_trunk, leaf_branch, writes, request, outcome, document,
                   rendered, handler_vars, create_call>>

\* validator.is_valid(response)
validator_is_valid(response) ==
    /\ pc = "idle"
    /\ validator_call' = [op |-> "is_valid", data_dict |-> response.data,
                          response |-> response]
                         @@ validate_response(response, ResponseOrder)
    /\ pc' = "done"
    /\ UNCHANGED <<branch_trunk, leaf_branch, writes, request, outcome, document,
                   rendered, handler_vars, create_call>>

ValidatorNext ==
    \/ /\ pc = "idle"
       /\ \E response \in Responses : validator_is_valid(response)
    \/ /\ pc = "idle"
       /\ \E members \in TopLevelMembers :
              validator_validate_top_level(TopLevelObject(members))
    \/ /\ pc = "idle"
       /\ \E data_dict \in NamePayloads, order \in NameOrders :
              validator_validate_member_names(data_dict, order)

ValidatorSpec == ValidatorInit /\ [][ValidatorNext]_vars

---------------------------------------------------------------------------
(* Properties *)

Key(x) == <<x.type, x.id>>

Keys(xs) == [i \in DOMAIN xs |-> Key(xs[i])]

\* the positions of a list that hold the first entry of their (type, id)
FirstPositions(xs) ==
    SelectSeq([i \in DOMAIN xs |-> i],
              LAMBDA i : \A j \in 1..(i - 1) : Key(xs[j]) # Key(xs[i]))

\* the entries of a list without those whose (type, id) came before
FirstSeen(xs) == [n \in DOMAIN FirstPositions(xs) |-> xs[FirstPositions(xs)[n]]]

NoDuplicates(xs) ==
    \A i, j \in DOMAIN xs : Key(xs[i]) = Key(xs[j]) => i = j

Built == pc = "done" /\ outcome.exc.kind = "none"

\* C1: after a collection build (many=true) the included list of the
\* document has one entry per distinct (type, id) of the builder's included
\* accumulator, in the order in which the (type, id) first appear in it.
Thm_C1 ==
    (Built /\ request.many) =>
        /\ NoDuplicates(document.included)
        /\ Keys(document.included) = Keys(FirstSeen(outcome.accumulator))
        /\ "included" \in DOMAIN rendered => rendered.included = document.included

\* C1 witness: a collection build whose accumulator holds the same related
\* entity several times and whose included list has several entries.
Wit_C1 ==
    /\ Built /\ request.many
    /\ ~NoDuplicates(outcome.accumulator)
    /\ Len(document.included) >= 2
    /\ \E i, j \in DOMAIN outcome.accumulator :
           /\ i < j
           /\ Key(outcome.accumulator[i]) = Key(outcome.accumulator[j])
           /\ outcome.accumulator[i] # outcome.accumulator[j]

\* C2: after a single-entity build (many=false) the included list placed in
\* the document has at most one entry per (type, id).
Cex_C2 ==
    (Built /\ ~request.many) => NoDuplicates(document.included)

\* C3: after a collection build every entry of the included list is the
\* first resource object of its (type, id) in the accumulator, not a later
\* one.
Cex_C3 ==
    (Built /\ request.many) => document.included = FirstSeen(outcome.accumulator)

\* C4: a rendered document never has both a data key and an errors key: it
\* has no data key when the Document's errors are non-empty, and no errors
\* key when it has a data key.
Thm_C4 ==
    pc = "done" =>
        /\ document.errors # <<>> =>
               "data" \notin DOMAIN rendered /\ rendered.errors = document.errors
        /\ "data" \in DOMAIN rendered => "errors" \notin DOMAIN rendered
        /\ document.errors = <<>> => "data" \in DOMAIN rendered

\* C4 witness: a Document holding both data and errors has been rendered.
Wit_C4 ==
    /\ pc = "done"
    /\ document.errors # <<>>
    /\ document.data = [many |-> FALSE, items |-> <<SomeResource>>]
    /\ "errors" \in DOMAIN rendered

\* C5: a rendered document without a data key has no included key.
Cex_C5 ==
    pc = "done" =>
        ("data" \notin DOMAIN rendered => "included" \notin DOMAIN rendered)

\* the resource objects of the built document, primary and included
ResourceObjects == Range(document.data.items) \cup Range(document.included)

IncludeError(exc) == exc.kind = "Error" /\ exc.raised_by = "validate_includes"

\* the build ended in resolve(request.path) of build_relationship_links
LinkFailure(exc) == exc.raised_by = "build_relationship_links"

Encountered ==
    {request.type} \cup {outcome.accumulator[i].type : i \in DOMAIN outcome.accumulator}

RECURSIVE PathTypes(_, _)
\* the types a declared include entry leads through
PathTypes(type, entry) ==
    IF entry \in {<<>>, <<"">>} THEN {}
    ELSE {RelatedType(type, entry[1])}
         \cup PathTypes(RelatedType(type, entry[1]), Tail(entry))

\* C8: a single-resource request, built with a request whose path
\* resolves, whose include entries are declared paths
\* and whose sparse fieldsets name, with declared fields, only the primary
\* type and types on those paths, succeeds, also when the primary resource
\* has no related entity along a path.
Cex_C8 ==
    ( /\ pc = "done"
      /\ ~request.many
      /\ request.context = RequestContext
      /\ \A e \in Range(request.include) : DeclaredPath(request.type, e)
      /\ \A T \in DOMAIN request.only_fields :
             /\ T \in {request.type}
                      \cup UNION {PathTypes(request.type, e) : e \in Range(request.include)}
             /\ request.only_fields[T] \subseteq Meta_fields(T) )
    => outcome.exc.kind = "none"

\* the first segments of the include entries that are neither None nor ""
FirstSegments == {e[1] : e \in Range(request.include) \ {<<>>, <<"">>}}

InvalidFirstSegments == FirstSegments \ Range(define_relationships(request.type))

\* C9: when some first segment of the include list is not a declared
\* relationship of the primary type, the build raises the Error with source
\* parameter include whose message lists all the invalid first segments,
\* before anything is fetched or built; None and "" entries are ignored, so
\* a list without invalid first segment makes the constructor raise no Error.
Thm_C9 ==
    pc = "done" =>
        /\ InvalidFirstSegments # {} =>
               /\ outcome.exc.kind = "Error"
               /\ outcome.exc.parameter = "include"
               /\ outcome.exc.names = InvalidFirstSegments
               /\ outcome.fetches = 0 /\ outcome.built = 0
               /\ rendered.errors[1].source = [parameter |-> "include"]
        /\ InvalidFirstSegments = {} =>
               ~(outcome.exc.kind = "Error" /\ outcome.fetches = 0)

\* C9 witness: an include list with two invalid first segments was rejected
\* with both names.
Wit_C9 ==
    /\ pc = "done"
    /\ outcome.exc.kind = "Error"
    /\ outcome.exc.names = {"zzz", "foo"}

\* C10: an include entry that names an undeclared relationship at any depth
\* makes the build, by a request whose path resolves, raise the include Error before any related entity is
\* fetched and before any resource object is built.
Cex_C10 ==
    ( /\ pc = "done"
      /\ request.only_fields = <<>>
      /\ request.context = RequestContext
      /\ \E e \in Range(request.include) : ~DeclaredPath(request.type, e) )
    => /\ IncludeError(outcome.exc)
       /\ outcome.fetches = 0
       /\ outcome.built = 0

\* the related entities of a relation that the entry of a built resource
\* object links to: those of the store, or their requested page
LinkedRelated(type, relation, inst) ==
    LET related == get_related(db, type, relation, inst)
        page == request_GET_page(request.context, relation)
    IN IF related.many /\ related.items # <<>> /\ page.size # NoPageSize
       THEN apply_pagination(NoPageSize, related.items, page.size, page.number).object_list
       ELSE related.items

IncludedKeys == Range(Keys(document.included))

\* C11: a build with the include entry a.b, a a declared relationship of
\* the primary type and b one of a's related type, has in included every a
\* entity of every primary resource and every b entity of these a entities.
Thm_C11 ==
    Built =>
        \A e \in Range(request.include) :
            (Len(e) >= 2 /\ DeclaredPath(request.type, <<e[1], e[2]>>)) =>
                \A i \in DOMAIN request.ids :
                    LET as == LinkedRelated(request.type, e[1],
                                            Instance(request.type, request.ids[i]))
                    IN \A j \in DOMAIN as :
                           /\ Key(as[j]) \in IncludedKeys
                           /\ \A b \in Range(LinkedRelated(as[j].type, e[2], as[j])) :
                                  Key(b) \in IncludedKeys

\* C11 witness: the leaves built with include=branch.trunk, a branch and
\* its trunk in included.
Wit_C11 ==
    /\ Built
    /\ request.many
    /\ request.type = "leaf"
    /\ request.include = <<<<"branch", "trunk">>>>
    /\ Len(document.included) = 2
    /\ <<"branch", 1>> \in IncludedKeys
    /\ <<"trunk", 1>> \in IncludedKeys

\* the entry of a relation in a resource object carries linkage data
EntryHasData(r, rel) ==
    /\ "relationships" \in DOMAIN r
    /\ rel \in DOMAIN r.relationships
    /\ "data" \in DOMAIN r.relationships[rel]

\* the entry of a relation in a resource object is absent or only links
EntryAtMostLinks(r, rel) ==
    ("relationships" \in DOMAIN r /\ rel \in DOMAIN r.relationships)
        => DOMAIN r.relationships[rel] \subseteq {"links"}

RECURSIVE TypeAfter(_, _)
\* the type a declared path of relationships leads to
TypeAfter(type, path) ==
    IF path = <<>> THEN type
    ELSE TypeAfter(RelatedType(type, path[1]), Tail(path))

\* rel is a key of the include tree of a nested builder of the type
NestedIncludeKey(type, rel) ==
    \E e \in Range(request.include) : \E k \in 2..Len(e) :
        /\ e[k] = rel
        /\ DeclaredPath(request.type, SubSeq(e, 1, k))
        /\ TypeAfter(request.type, SubSeq(e, 1, k - 1)) = type

RECURSIVE LinkageCount(_)
\* the number of relationship entries with linkage data in resource objects
LinkageCount(rs) ==
    IF rs = <<>> THEN 0
    ELSE Cardinality({rel \in Range(define_relationships(Head(rs).type)) :
                         EntryHasData(Head(rs), rel)})
         + LinkageCount(Tail(rs))

\* C12: in a built document, the entry of a declared relationship of a
\* primary resource object has linkage data only if the relationship is
\* configured as shown or is a key of the root builder's include tree, that
\* of an included resource object only if it is a key of the include tree
\* of a nested builder of its type; every other entry is absent or carries
\* only links, and get_related was called exactly once per entry with
\* linkage data, so never for an entry without.
Thm_C12 ==
    Built =>
        /\ \A r \in Range(document.data.items) :
               \A rel \in Range(define_relationships(r.type)) :
                   /\ EntryHasData(r, rel) =>
                          \/ RelationshipHandler(r.type, rel).show_data
                          \/ rel \in FirstSegments
                   /\ ~EntryHasData(r, rel) => EntryAtMostLinks(r, rel)
        /\ \A r \in Range(outcome.accumulator) :
               \A rel \in Range(define_relationships(r.type)) :
                   /\ EntryHasData(r, rel) => NestedIncludeKey(r.type, rel)
                   /\ ~EntryHasData(r, rel) => EntryAtMostLinks(r, rel)
        /\ outcome.fetches =
               LinkageCount(document.data.items \o outcome.accumulator)

\* C12 witness: the trunks built without include, the branches entry of
\* each only links and nothing fetched.
Wit_C12 ==
    /\ Built
    /\ request.many
    /\ request.type = "trunk"
    /\ request.include = <<>>
    /\ \A i \in DOMAIN document.data.items :
           DOMAIN document.data.items[i].relationships["branches"] = {"links"}
    /\ outcome.fetches = 0

\* C13: in a built document, the entry of a relationship of a primary
\* resource object that is shown or a key of the root include tree, and
\* whose get_related returns no entity, has data null when the handler is
\* to-one and data [] when it is to-many, and no meta; when no included
\* relationship of any primary resource has a related entity, nothing was
\* appended to the included accumulator.
Thm_C13 ==
    Built =>
        /\ \A i \in DOMAIN request.ids :
               \A rel \in Range(define_relationships(request.type)) :
                   LET inst == Instance(request.type, request.ids[i])
                       r == document.data.items[i]
                       handler == RelationshipHandler(request.type, rel)
                   IN ( /\ handler.show_data \/ rel \in FirstSegments
                        /\ get_related(db, request.type, rel, inst).items = <<>> )
                      => /\ EntryHasData(r, rel)
                         /\ r.relationships[rel].data =
                                [many |-> handler.many, items |-> <<>>]
                         /\ DOMAIN r.relationships[rel] \subseteq {"data", "links"}
        /\ (\A i \in DOMAIN request.ids : \A rel \in FirstSegments :
                get_related(db, request.type, rel,
                            Instance(request.type, request.ids[i])).items = <<>>)
               => outcome.accumulator = <<>>

\* C13 witness: a leaf without branch built with include=branch (data
\* null), nothing included.
Wit_C13 ==
    /\ Built
    /\ ~request.many
    /\ request.type = "leaf"
    /\ request.include = <<<<"branch">>>>
    /\ document.data.items[1].relationships["branch"].data =
           [many |-> FALSE, items |-> <<>>]
    /\ document.included = <<>>

\* the page size apply_pagination works with: the one given, else the
\* handler's default
CallPerPage ==
    IF handler_call.page_size # NoPageSize THEN handler_call.page_size
    ELSE handler_self.default_page_size

\* ceil(n / s), and 1 for no item: the paginator's number of pages
NumPages(n, s) ==
    IF n = 0 THEN 1 ELSE CHOOSE k \in 1..n : (k - 1) * s < n /\ n <= k * s

\* C14: apply_pagination over n items with page size s >= 1 and a page
\* number p greater than the number of pages returns the empty slice and a
\* meta with has_next false, count n, page p, page_size s, the number of
\* pages, and has_previous true exactly when p = num_pages + 1.
Thm_C14 ==
    ( /\ handler_call.op = "apply_pagination"
      /\ CallPerPage >= 1
      /\ handler_call.page_number > NumPages(Len(handler_call.related), CallPerPage) )
    => LET n == Len(handler_call.related)
           num_pages == NumPages(n, CallPerPage)
       IN /\ handler_call.raised = "none"
          /\ handler_call.object_list = <<>>
          /\ handler_call.meta =
                 [count |-> n, has_next |-> FALSE,
                  has_previous |-> (handler_call.page_number = num_pages + 1),
                  page_size |-> CallPerPage, page |-> handler_call.page_number,
                  num_pages |-> num_pages]

\* C14 witness: 9 items, page size 10, page 2.
Wit_C14 ==
    /\ handler_call.op = "apply_pagination"
    /\ Len(handler_call.related) = 9
    /\ handler_call.page_size = 10
    /\ handler_call.page_number = 2
    /\ handler_call.object_list = <<>>
    /\ handler_call.meta.has_previous
    /\ ~handler_call.meta.has_next
    /\ handler_call.meta.count = 9
    /\ handler_call.meta.num_pages = 1

\* C15: apply_pagination over n >= 1 items with page size s >= 1 and
\* 1 <= p <= num_pages returns the items (p-1)*s .. min(p*s, n)-1 in input
\* order and a meta with exactly the keys count = n, num_pages = ceil(n/s),
\* page = p, page_size = s, has_next = (p < num_pages), has_previous = (p > 1).
Thm_C15 ==
    ( /\ handler_call.op = "apply_pagination"
      /\ Len(handler_call.related) >= 1
      /\ CallPerPage >= 1
      /\ handler_call.page_number >= 1
      /\ handler_call.page_number <= NumPages(Len(handler_call.related), CallPerPage) )
    => LET n == Len(handler_call.related)
           s == CallPerPage
           p == handler_call.page_number
           num_pages == NumPages(n, s)
           last == IF p * s < n THEN p * s ELSE n
       IN /\ handler_call.raised = "none"
          /\ handler_call.object_list =
                 [i \in 1..(last - (p - 1) * s) |->
                     handler_call.related[(p - 1) * s + i]]
          /\ DOMAIN handler_call.meta =
                 {"count", "num_pages", "page", "page_size", "has_next", "has_previous"}
          /\ handler_call.meta.count = n
          /\ handler_call.meta.num_pages = num_pages
          /\ handler_call.meta.page = p
          /\ handler_call.meta.page_size = s
          /\ handler_call.meta.has_next = (p < num_pages)
          /\ handler_call.meta.has_previous = (p > 1)

\* C15 witness: the second of three pages of 9 items by 4.
Wit_C15 ==
    /\ handler_call.op = "apply_pagination"
    /\ Len(handler_call.related) = 9
    /\ handler_call.page_size = 4
    /\ handler_call.page_number = 2
    /\ handler_call.object_list = <<5, 6, 7, 8>>
    /\ handler_call.meta.has_next
    /\ handler_call.meta.has_previous
    /\ handler_call.meta.num_pages = 3

\* C16: set_related, add_related and remove_related through a handler
\* constructed with read_only = True always raise the domain Error and leave
\* the related set as it was, whatever the payload.
Cex_C16 ==
    ( /\ handler_call.op \in {"set_related", "add_related", "remove_related"}
      /\ handler_self.read_only )
    => /\ handler_call.raised = "Error"
       /\ handler_resource = handler_call.before

\* the payload shapes validate accepts for the handler
AcceptedShape(self, data) ==
    \/ self.many /\ data.kind = "list"
    \/ ~self.many /\ data.kind \in {"dict", "None"}

\* C17: validate returns the payload unchanged when it is a list for a
\* to-many handler, or a dict or null for a to-one handler, and raises
\* ParseError for every other shape.
Thm_C17 ==
    handler_call.op = "validate"
    => IF AcceptedShape(handler_self, handler_call.data)
       THEN /\ handler_call.raised = "none"
            /\ handler_call.returned = <<handler_call.data>>
       ELSE handler_call.raised = "ParseError"

\* C17 witness: a to-one handler given a list.
Wit_C17 ==
    /\ handler_call.op = "validate"
    /\ ~handler_self.many
    /\ handler_call.data.kind = "list"
    /\ handler_call.raised = "ParseError"

\* C18: link construction never fails a build: for every request context,
\* the request absent or its path matching no route included, and every
\* relationship, no build ends with an exception raised while the links of
\* a relationship were constructed.
Cex_C18 ==
    pc = "done" => ~LinkFailure(outcome.exc)

\* the members of the top-level object validated, and the keys it may have
TopKeys == DOMAIN validator_call.data_dict.value

AllowedTopKeys == {"data", "errors", "meta", "jsonapi", "links", "included"}

Violations == Range(validator_call.ret)

\* primary data that is a resource object, a list of them, [] or null
ValidPrimaryData ==
    {valid_test_data_entry, JList(<<valid_test_data_entry>>), JList(<<>>), JNone}

\* values of jsonapi, links and included that pass their own checks
ValidOptionalMembers ==
    [jsonapi |-> {JDict(<<>>), JDict("version" :> JStr("1.0"))},
     links |-> {JDict(<<>>), JDict("self" :> JStr("http://dead.net"))},
     included |-> {JList(<<>>), JList(<<valid_test_data_entry>>)}]

\* a call of the top-level check that returned
TopLevelReturned ==
    /\ validator_call.op = "_validate_top_level"
    /\ validator_call.raised = "none"

\* what the top-level check returns for an object without data, errors and
\* meta, with both data and errors, and for each key that is not allowed
KeyViolations ==
    /\ TopKeys \cap {"data", "errors", "meta"} = {}
       => MustContainOne("Top-Level Object") \in Violations
    /\ {"data", "errors"} \subseteq TopKeys
       => MustNotContainBoth("Top-Level Object", "data", "errors") \in Violations
    /\ \A key \in TopKeys \ AllowedTopKeys :
           MustNotContain("Top-Level Object", key) \in Violations

\* C19 as stated: the top-level check returns a violation for an object with
\* none of data, errors, meta, the 'MUST NOT contain both' violation for one
\* with data and errors, a violation for every key outside data, errors,
\* meta, jsonapi, links, included, and an empty list for an object with
\* valid primary data and only allowed keys.
Cex_C19 ==
    TopLevelReturned
    => /\ KeyViolations
       /\ ( /\ "data" \in TopKeys
            /\ validator_call.data_dict.value["data"] \in ValidPrimaryData
            /\ TopKeys \subseteq AllowedTopKeys )
          => validator_call.ret = <<>>

\* C19, amended: the same three violations, and an empty list for an object
\* with valid primary data, no errors member, only allowed keys, and
\* jsonapi, links and included members that pass their own checks.
Thm_C19 ==
    TopLevelReturned
    => /\ KeyViolations
       /\ ( /\ "data" \in TopKeys
            /\ validator_call.data_dict.value["data"] \in ValidPrimaryData
            /\ TopKeys \subseteq AllowedTopKeys
            /\ "errors" \notin TopKeys
            /\ \A key \in TopKeys \cap DOMAIN ValidOptionalMembers :
                   validator_call.data_dict.value[key] \in ValidOptionalMembers[key] )
          => validator_call.ret = <<>>

\* C19 witness: an object with data, errors and a key that is not allowed.
Wit_C19 ==
    /\ TopLevelReturned
    /\ {"data", "errors", "jsonvapi"} \subseteq TopKeys
    /\ MustNotContainBoth("Top-Level Object", "data", "errors") \in Violations
    /\ MustNotContain("Top-Level Object", "jsonvapi") \in Violations

\* C20: the top-level check reports at least one violation for every object
\* that contains included but no data.
Cex_C20 ==
    ( /\ TopLevelReturned
      /\ "included" \in TopKeys
      /\ "data" \notin TopKeys )
    => validator_call.ret # <<>>

\* the violations of one member name: the empty name, its first and its
\* last character, each of its characters
MemberNameViolations(key) ==
    LET name == MemberNameChars(key)
        boundary == IF name = <<>> THEN <<>> ELSE <<name[1], name[Len(name)]>>
        InBoundary(char) == char \in {"-", "_", " "}
        InChars(char) == char \in InitialLists.disallowed_chars
        bad_boundary == SelectSeq(boundary, InBoundary)
        bad_chars == SelectSeq(name, InChars)
    IN IF key = "" THEN <<<<"<empty_string> is not a valid Member Name">>>>
       ELSE [i \in DOMAIN bad_boundary |->
                <<"is not a valid boundary character in a Member Name", bad_boundary[i]>>]
            \o [i \in DOMAIN bad_chars |->
                   <<"is not a valid character in a Member Name", bad_chars[i]>>]

RECURSIVE Concat(_)

Concat(lists) == IF lists = <<>> THEN <<>> ELSE Head(lists) \o Concat(Tail(lists))

\* the violations of every member name of a value, key after key, each
\* followed by those of its value; the objects in arrays are visited when
\* arrays is TRUE
RECURSIVE ExpectedNames(_, _, _)

ExpectedNames(value, order, arrays) ==
    IF value.kind = "dict"
    THEN LET keys == dict_keys(value, order)
         IN Concat([i \in DOMAIN keys |->
                       MemberNameViolations(keys[i])
                       \o ExpectedNames(value.value[keys[i]], order, arrays)])
    ELSE IF value.kind = "list" /\ arrays
    THEN Concat([i \in DOMAIN value.value |-> ExpectedNames(value.value[i], order, arrays)])
    ELSE <<>>

Count(m, messages) == Cardinality({i \in DOMAIN messages : messages[i] = m})

\* C21: the member-name check covers every key of the payload at every
\* depth, under an object or under an array: each empty key, each boundary
\* character and each disallowed character of each key yields a violation.
Cex_C21 ==
    validator_call.op = "_validate_member_names"
    => /\ validator_call.raised = "none"
       /\ \A m \in Range(ExpectedNames(validator_call.data_dict, validator_call.order, TRUE)) :
              Count(m, validator_call.ret)
              >= Count(m, ExpectedNames(validator_call.data_dict, validator_call.order, TRUE))

\* C22: the result of the member-name check for an object is the
\* concatenation of the results of its keys, each one message per offending
\* boundary character and per disallowed character, whatever keys were
\* examined before.
Cex_C22 ==
    validator_call.op = "_validate_member_names"
    => /\ validator_call.raised = "none"
       /\ validator_call.ret
          = ExpectedNames(validator_call.data_dict, validator_call.order, FALSE)

\* C23: the structural validator never raises: for every payload, the
\* malformed ones included, its checks return a list of messages.
Cex_C23 ==
    validator_call.op \in {"is_valid", "_validate_top_level", "_validate_member_names"}
    => validator_call.raised = "none"

\* The handlers of the builder of a type as define_relationships constructs
\* them, and as they are once a builder of that type nested under another
\* builder has populated the relationships of one instance.
ConstructedHandlers(type) == [relation \in Range(define_relationships(type)) |-> RelationshipHandler(type, relation)]

HandlersAfterNestedBuild(type) == [relation \in Range(define_relationships(type)) |-> populate_relationships_handler([type |-> type, is_root |-> FALSE], relation)]

\* C24: building never changes a RelationshipHandler: for every resource a
\* nested builder has built, the handlers of that builder have the attribute
\* values they had after construction.
Cex_C24 ==
    pc = "done"
    => \A r \in Range(outcome.accumulator) :
           HandlersAfterNestedBuild(r.type) = ConstructedHandlers(r.type)

RECURSIVE ReachedTypes(_, _, _)
\* the types that a set of entities of a type reaches in the store by
\* following the segments of an include entry
ReachedTypes(type, insts, entry) ==
    IF entry \in {<<>>, <<"">>} THEN {}
    ELSE LET related == UNION {Range(get_related(db, type, entry[1], i).items) : i \in insts}
         IN IF related = {} THEN {}
            ELSE {RelatedType(type, entry[1])}
                 \cup ReachedTypes(RelatedType(type, entry[1]), related, Tail(entry))

\* the types touched by the whole collection of a request
CollectionTypes ==
    {request.type}
    \cup UNION {ReachedTypes(request.type,
                             {Instance(request.type, id) : id \in Range(request.ids)}, e) :
                    e \in Range(request.include)}

\* C25: a collection build whose sparse fieldsets name, with declared
\* fields, only types that some entity of the collection reaches through a
\* requested include path succeeds, whatever the position of that entity.
Cex_C25 ==
    ( /\ pc = "done"
      /\ request.many
      /\ request.context = RequestContext
      /\ \A e \in Range(request.include) : DeclaredPath(request.type, e)
      /\ \A T \in DOMAIN request.only_fields :
             /\ T \in CollectionTypes
             /\ request.only_fields[T] \subseteq Meta_fields(T) )
    => outcome.exc.kind = "none"

\* the number of segments of an include entry: none for None, one for ""
Segments(entry) == Len(entry)

\* the largest number of segments of an entry of an include list
MaxSegments(include) ==
    IF include = <<>> THEN 0
    ELSE CHOOSE n \in {Segments(e) : e \in Range(include)} :
             \A e \in Range(include) : Segments(e) <= n

\* the remainders, in order, of the entries of an include list that begin
\* with a relation and have further segments
Remainders(include, relation) ==
    LET further == SelectSeq(include, LAMBDA e : Len(e) >= 2 /\ e[1] = relation /\ Tail(e) # <<"">>)
    IN [i \in DOMAIN further |-> Tail(further[i])]

\* C26: every build ends, the builder nested under a relation receives
\* exactly the remainders of the requested paths that begin with the
\* relation, each one segment shorter, and the nesting of builders is never
\* deeper than the largest number of segments of a requested path.
Thm_C26 ==
    pc = "done"
    => /\ outcome.depth <= MaxSegments(request.include)
       /\ \A relation \in DOMAIN build_include_tree(request.include).branches :
              build_include_tree(request.include).branches[relation]
              = Remainders(request.include, relation)

\* C26 witness: a build along the cyclic path branch.trunk.branches, which
\* returns to the type branch, nests three builders.
Wit_C26 ==
    /\ pc = "done"
    /\ request.type = "leaf"
    /\ request.include = <<<<"branch", "trunk", "branches">>>>
    /\ outcome.exc.kind = "none"
    /\ outcome.depth = 3

RECURSIVE ReachedKeys(_, _, _)
\* the (type, id) of the entities that a set of entities of a type reaches
\* in the store by following the segments of an include entry
ReachedKeys(type, insts, entry) ==
    IF entry \in {<<>>, <<"">>} \/ entry[1] \notin Range(define_relationships(type)) THEN {}
    ELSE LET related == UNION {Range(get_related(db, type, entry[1], i).items) : i \in insts}
         IN {Key(x) : x \in related}
            \cup ReachedKeys(RelatedType(type, entry[1]), related, Tail(entry))

\* the entities the include paths of the request lead to from its primary
\* entities
RequestKeys ==
    UNION {ReachedKeys(request.type,
                       {Instance(request.type, id) : id \in Range(request.ids)}, e) :
              e \in Range(request.include)}

\* the accumulator of the build of the request for one entity alone
AccumulatorOf(id) ==
    serialize(db, request.type,
              [many |-> FALSE, items |-> <<Instance(request.type, id)>>],
              request.include, <<>>, TRUE, request.context).accumulator

\* C27: the included accumulator belongs to one build: the builder is
\* constructed with an empty one, every entry of the accumulator after the
\* build is an entity that this request's include paths reach, and what
\* the build of one entity of a collection appended stays in front of what
\* the next entity appends.
Thm_C27 ==
    pc = "done"
    => /\ ResourceSerializer_init(request.type, request.include, request.only_fields,
                                  TRUE, request.context).included = <<>>
       /\ \A r \in Range(outcome.accumulator) : Key(r) \in RequestKeys
       /\ (request.many /\ outcome.exc.kind = "none" /\ request.only_fields = <<>>)
          => outcome.accumulator
             = AccumulatorOf(request.ids[1]) \o AccumulatorOf(request.ids[2])

\* C27 witness: a collection build with include=branch whose two leaves
\* each appended the resource object of their branch
Wit_C27 ==
    /\ pc = "done"
    /\ request.many
    /\ request.type = "leaf"
    /\ request.include = <<<<"branch">>>>
    /\ Len(outcome.accumulator) = 2
    /\ outcome.exc.kind = "none"

\* the positions of the calls of save in the trace of the create request
SavePositions == {i \in DOMAIN create_call.trace : create_call.trace[i] = <<"save">>}

\* the positions at which the trace sets a relationship
SetPositions(relation) == {i \in DOMAIN create_call.trace : create_call.trace[i] = <<"set_related", relation>>}

\* the relationship names of the payload of the create request
PayloadRelations == {create_call.data.relationships[i][1] : i \in DOMAIN create_call.data.relationships}

ToOneRelations == {"related_thing"}

ToManyRelations == {"related_things"}

\* C28: in a create request every to-one relationship is set before save and
\* every to-many relationship after it, a request that succeeds sets each
\* relationship of its payload once and calls save exactly once, and save
\* is not called when the attributes are not valid or the payload names an
\* undeclared relationship.
Thm_C28 ==
    create_call.op = "create"
    => /\ Cardinality(SavePositions) <= 1
       /\ \A relation \in ToOneRelations : \A i \in SetPositions(relation) :
              \A j \in SavePositions : i < j
       /\ \A relation \in ToManyRelations : \A i \in SetPositions(relation) :
              \E j \in SavePositions : j < i
       /\ create_call.response = "Response"
          => /\ Cardinality(SavePositions) = 1
             /\ \A relation \in PayloadRelations :
                    Cardinality(SetPositions(relation)) = 1
       /\ ( \/ ~create_call.data.is_valid
            \/ PayloadRelations \ (ToOneRelations \cup ToManyRelations) # {} )
          => SavePositions = {}

\* C28 witness: a create request with a to-many and a to-one relationship,
\* given in that order, that succeeds
Wit_C28 ==
    /\ create_call.op = "create"
    /\ create_call.response = "Response"
    /\ Len(create_call.data.relationships) = 2
    /\ create_call.data.relationships[1][1] = "related_things"
    /\ create_call.trace = << <<"set_related", "related_thing">>, <<"save">>,
                              <<"set_related", "related_things">> >>

\* the (type, id) of the linkage identifiers of a relationship of a
\* resource object
LinkageKeys(r, rel) ==
    IF EntryHasData(r, rel)
    THEN {Key(x) : x \in Range(r.relationships[rel].data.items)}
    ELSE {}

\* the (type, id) of all linkage identifiers of a resource object
AllLinkageKeys(r) == UNION {LinkageKeys(r, rel) : rel \in Range(define_relationships(r.type))}

\* C29: a built compound document has full linkage: every included
\* resource object is identified by a linkage identifier of a primary or of
\* another included resource object, and every linkage identifier of a
\* relationship of a primary resource object that the include list names
\* has its resource object in included.
Cex_C29 ==
    Built
    => /\ \A r \in Range(document.included) :
              \E o \in ResourceObjects \ {r} : Key(r) \in AllLinkageKeys(o)
       /\ \A o \in Range(document.data.items) :
              \A rel \in FirstSegments \cap Range(define_relationships(o.type)) :
                  LinkageKeys(o, rel) \subseteq IncludedKeys

\* a resource identifier of the builder as the dict the validator is given
IdentifierJson(x) == JDict("type" :> JStr(x.type) @@ "id" :> JInt(x.id))

\* the links of the builder as a dict of absolute URLs
LinksJson(links) == JDict([k \in DOMAIN links |-> JStr("http://dead.net")])

\* the linkage of a relationship as a list, a dict or None
LinkageJson(data) ==
    IF data.many THEN JList([i \in DOMAIN data.items |-> IdentifierJson(data.items[i])])
    ELSE IF data.items = <<>> THEN JNone
    ELSE IdentifierJson(data.items[1])

\* the entry of a relationship as a dict
RelationshipJson(entry) ==
    JDict([k \in DOMAIN entry |->
              CASE k = "data" -> LinkageJson(entry.data)
                [] k = "links" -> LinksJson(entry.links)
                [] OTHER -> JDict([m \in DOMAIN entry[k] |-> JInt(0)])])

\* a resource object of the builder as the dict the validator is given
ResourceJson(r) ==
    JDict([k \in DOMAIN r |->
              CASE k = "type" -> JStr(r.type)
                [] k = "id" -> JInt(r.id)
                [] k = "attributes" -> JDict([f \in DOMAIN r.attributes |-> JStr("x")])
                [] k = "relationships" ->
                       JDict([rel \in DOMAIN r.relationships |->
                                 RelationshipJson(r.relationships[rel])])
                [] OTHER -> LinksJson(r.links)])

\* C30: every resource object of a built document, primary or included,
\* passes the validator's resource object check without a message, also
\* when a sparse fieldset of its type has an empty field list.
Cex_C30 ==
    Built
    => \A r \in ResourceObjects :
           validate_method("resource_object", ResourceJson(r)) = Returned(<<>>)

====
